---- MODULE Spec2Model ----
(***************************************************************************)
(* GitHub -> Notion entity reconciliation, as implemented several times in *)
(* src/agent_logic/notion_sync:                                            *)
(*   "items"  entity_sync.py   _sync_items over a lazy GitHubClient listing *)
(*   "engine" entities.py      EntitySyncEngine fed by sync_entities.main   *)
(*   "repos"  client.py        NotionSyncClient.sync_repositories           *)
(*   "jobs"   jobs.py          sync_entities over NotionClient.upsert       *)
(* One run lists a collection from the source, then upserts one page per   *)
(* record into the target database.  The target database is the mock of    *)
(* tests/notion_sync/test_client.py: pages are found by the text stored in *)
(* their identifier property.                                              *)
(***************************************************************************)
EXTENDS Integers, Sequences, FiniteSets, TLC

(* ------------------------------ bounds --------------------------------- *)
MaxBatch == 2      \* records in one source listing
PerPage == 2       \* largest page size the source answers with
MaxFaults == 1     \* target calls that answer with an error in one behaviour
MaxRuns == 2       \* successive runs over the same listing
MaxResponses == 2  \* responses the source serves to one listing of projects
MaxEvents == 3     \* events one DataBridge handles
MaxOutcomes == 6   \* API calls whose outcome is chosen; the later ones succeed

(* --------------------------- Python values ----------------------------- *)
\* None, and the value of dict.get for a missing key
None == "<None>"

\* bool(x) for a string or None
Truthy(x) == x # None /\ x # ""

\* a or b
Or(a, b) == IF Truthy(a) THEN a ELSE b

\* str(x): str(None) is the four letters None
Str(x) == IF x = None THEN "None" ELSE x

\* str.title() / str.capitalize() on the state words GitHub uses
Title(s) ==
  CASE s = "open" -> "Open"
    [] s = "closed" -> "Closed"
    [] s = "unknown" -> "Unknown"
    [] s = "None" -> "None"
    [] OTHER -> s

Min(a, b) == IF a <= b THEN a ELSE b

\* s[:n]
Prefix(s, n) == SubSeq(s, 1, Min(Len(s), n))

SeqToSet(s) == {s[i] : i \in 1..Len(s)}

\* [x for x in s if keep(x)]
RECURSIVE FilterTruthy(_)
FilterTruthy(s) ==
  IF s = <<>> THEN <<>>
  ELSE IF Truthy(Head(s)) THEN <<Head(s)>> \o FilterTruthy(Tail(s))
       ELSE FilterTruthy(Tail(s))

\* sep.join(s)
RECURSIVE Join(_, _)
Join(s, sep) ==
  IF s = <<>> THEN ""
  ELSE IF Len(s) = 1 THEN Head(s)
       ELSE Head(s) \o sep \o Join(Tail(s), sep)

\* [repr(x) for x in s]
Quoted(s) == [j \in 1..Len(s) |-> "'" \o s[j] \o "'"]

\* str(s) for a list of strings
StrList(s) == "[" \o Join(Quoted(s), ", ") \o "]"

\* float(s) succeeds: s is a decimal numeral
RECURSIVE AllDigits(_)
AllDigits(s) ==
  \/ s = ""
  \/ /\ SubSeq(s, 1, 1) \in {"0", "1", "2", "3", "4", "5", "6", "7", "8", "9"}
     /\ AllDigits(SubSeq(s, 2, Len(s)))

IsNumeric(s) == s # None /\ s # "" /\ AllDigits(s)

(* ------------------------- Notion property values ---------------------- *)
\* one property value of a page payload: its wire type, its text (content,
\* option name, url, date start or number; None is JSON null) and, for
\* multi_select, its option names
PV(t, s, ns) == [type |-> t, text |-> s, names |-> ns]

\* the empty mapping {} that a payload helper returns for "nothing to write"
EmptyPayload == PV("empty", None, <<>>)

NoProps == <<>>

\* dict.update / PATCH of a page: the new properties replace, the others stay
Override(old, new) ==
  [k \in (DOMAIN old) \cup (DOMAIN new) |->
     IF k \in DOMAIN new THEN new[k] ELSE old[k]]

(* ----------------------------- source records -------------------------- *)
\* a record of the GitHub REST listing (issues / pulls); labels holds the
\* name of each label, labels_null is the JSON document "labels": null
RawItem(id, node, num, title, state, merged, labels, lnull, url, marker) ==
  [id |-> id, node_id |-> node, number |-> num, title |-> title,
   state |-> state, merged_at |-> merged, labels |-> labels,
   labels_null |-> lnull, html_url |-> url, pull_request |-> marker,
   assignees |-> <<>>, user_login |-> "octocat", requested_reviewers |-> <<>>,
   created_at |-> "2024-01-01T12:00:00Z", updated_at |-> "2024-01-02T12:00:00Z",
   closed_at |-> IF state = "closed" THEN "2024-01-03T12:00:00Z" ELSE None]

IssueI1 == RawItem("I_1", None, "42", "Bug: fix regression", "open", None,
                   <<"task">>, FALSE, None, FALSE)
IssueN7 == RawItem("7", "N_7", "7", "Implement feature", "closed", None,
                   <<"task", "backend", "task">>, FALSE,
                   "https://github.com/org/repo/issues/7", FALSE)
PrMerged == RawItem("99", "PR_99", "10", "Add sync workflow", "closed",
                    "2024-02-02T10:00:00Z", <<>>, FALSE,
                    "https://github.com/org/repo/pull/10", TRUE)
PrMergedNoState == RawItem("100", "PR_100", "11", "Hotfix", None,
                           "2024-02-03T10:00:00Z", <<"">>, FALSE, None, TRUE)
PrClosed == RawItem("101", "PR_101", "12", "Abandoned", "closed", None,
                    <<"wip">>, FALSE, None, TRUE)
NullLabels == RawItem("11", "N_11", "13", "Broken", "open", None,
                      <<>>, TRUE, None, FALSE)

\* a record that carries neither a node_id nor an id
Anonymous == RawItem(None, None, "14", "No identity", "open", None,
                     <<"task">>, FALSE, None, FALSE)

\* GET /issues answers with issues and with the pull requests of the
\* repository (those carry the pull_request marker); GET /pulls answers with
\* pull requests only
SourceSamples(k) ==
  IF k = "pull_requests" THEN {PrMerged, PrMergedNoState, PrClosed}
  ELSE {IssueI1, IssueN7, NullLabels, PrMerged}

\* the records _sync_items is given, one of them without identity
ItemSamples(k) ==
  IF k = "issues" THEN SourceSamples(k) \cup {Anonymous} ELSE SourceSamples(k)

\* every listing of at most MaxBatch records
Listings(samples) == UNION {[1..n -> samples] : n \in 0..MaxBatch}

\* number of response pages of a listing cut into pages of pp records (an
\* empty listing is one empty page)
PagesOf(lst, pp) == IF Len(lst) = 0 THEN 1 ELSE (Len(lst) + pp - 1) \div pp

\* the page sizes tried where the page size shows: one record a page and
\* the largest page (a listing that is read in full before the loop starts
\* is the same for every page size and is served in the largest pages)
PageSizes == {1, PerPage}

\* the page that holds record i
PageAt(i, pp) == ((i - 1) \div pp) + 1

\* iter_issues, fetch_issues and issues() keep the records without the
\* pull_request marker; the pull request listings keep all
RECURSIVE WithoutMarker(_)
WithoutMarker(lst) ==
  IF lst = <<>> THEN <<>>
  ELSE IF Head(lst).pull_request THEN WithoutMarker(Tail(lst))
       ELSE <<Head(lst)>> \o WithoutMarker(Tail(lst))

Fetched(k, lst) == IF k = "issues" THEN WithoutMarker(lst) ELSE lst

(* ------------------------- the target database ------------------------ *)
\* One call the process sent to the target API: op is "query", "create" or
\* "update"; run and item say which record of which run it was sent for;
\* arg is the identifier queried or written for; page is the page an update
\* addressed, the page a create made or the first result a query answered
\* with (0: none); ok is FALSE when the target answered with an error.
Call(op, r, i, arg, page, props, ok) ==
  [op |-> op, run |-> r, item |-> i, arg |-> arg, page |-> page,
   props |-> props, ok |-> ok]

\* POST /databases/{id}/query with {property: prop, <ftype>: {equals: value}}:
\* the pages whose property prop holds exactly that text, oldest first
Matches(pgs, prop, ftype, value) ==
  {i \in 1..Len(pgs) :
     /\ prop \in DOMAIN pgs[i]
     /\ pgs[i][prop].type = ftype
     /\ pgs[i][prop].text = value}

\* results[0] of the query, 0 when results is empty
FirstMatch(pgs, prop, ftype, value) ==
  LET m == Matches(pgs, prop, ftype, value)
  IN IF m = {} THEN 0 ELSE CHOOSE i \in m : \A j \in m : i <= j

\* POST /pages
CreatePage(pgs, props) == Append(pgs, props)

\* PATCH /pages/{id}
UpdatePage(pgs, id, props) == [pgs EXCEPT ![id] = Override(@, props)]

(* ------------------------------ summaries ------------------------------ *)
\* The counters of client.SyncSummary (processed, succeeded, failed, errors),
\* of entity_sync.SyncResult (created, updated, skipped) and of the dict of
\* jobs.sync_entities (processed, created, updated, job_errors).  A counter
\* that the summary type of the running implementation lacks stays 0.
NewSummary ==
  [processed |-> 0, succeeded |-> 0, failed |-> 0, errors |-> <<>>,
   created |-> 0, updated |-> 0, skipped |-> 0, job_errors |-> 0]

\* record_success that forgets the processed counter
record_success_uncounted(sm) ==
  [sm EXCEPT !.succeeded = @ + 1]

record_success(sm) ==
  [sm EXCEPT !.processed = @ + 1, !.succeeded = @ + 1]

\* record_failure that puts the new error record first
record_failure_prepended(sm, repository, message) ==
  [sm EXCEPT !.processed = @ + 1, !.failed = @ + 1,
             !.errors = <<[repository |-> repository, message |-> message]>> \o @]

\* errors gets {"repository": str(full_name or name), "message": message}
record_failure(sm, repository, message) ==
  [sm EXCEPT !.processed = @ + 1, !.failed = @ + 1,
             !.errors = Append(@, [repository |-> repository, message |-> message])]

record_created(sm) == [sm EXCEPT !.created = @ + 1]
record_updated(sm) == [sm EXCEPT !.updated = @ + 1]
record_skipped(sm) == [sm EXCEPT !.skipped = @ + 1]

(* ------------------ entity_sync.py: property builders ------------------ *)
\* SYNC_TARGETS["issues"] and SYNC_TARGETS["pull_requests"]
default_status_open == "Open"
default_status_closed == "Closed"

_build_title_payload(title) ==
  PV("title", IF Truthy(title) THEN Prefix(title, 2000) ELSE "Untitled", <<>>)

_build_status_payload(status) ==
  IF ~Truthy(status) THEN EmptyPayload ELSE PV("status", status, <<>>)

_build_people_payload == PV("people", None, <<>>)

_build_labels_payload(labels) == PV("multi_select", None, FilterTruthy(labels))

_build_url_payload(url) ==
  IF ~Truthy(url) THEN EmptyPayload ELSE PV("url", url, <<>>)

_build_rich_text_payload(value) ==
  IF ~Truthy(value) THEN EmptyPayload ELSE PV("rich_text", value, <<>>)

_build_number_payload(number) ==
  IF number = None THEN EmptyPayload ELSE PV("number", number, <<>>)

\* keeps an entry when `value or value == [] or value == 0`: every payload
\* but the empty mapping
_merge_properties(entries) ==
  [k \in {n \in DOMAIN entries : entries[n] # EmptyPayload} |-> entries[k]]

\* the names of the labels that have one
_extract_labels(raw_labels) == FilterTruthy(raw_labels)

_issue_status(issue) ==
  IF issue.state = "closed" THEN default_status_closed ELSE default_status_open

_pull_request_status(pr) ==
  IF Truthy(pr.merged_at) THEN "Merged"
  ELSE IF pr.state = "closed" THEN default_status_closed
       ELSE default_status_open

_build_issue_properties(issue) ==
  _merge_properties(
    [n \in {"Name", "Status", "Assignee", "Labels", "GitHub URL", "GitHub ID",
            "GitHub Number"} |->
       CASE n = "Name" -> _build_title_payload(Or(issue.title, "Untitled"))
         [] n = "Status" -> _build_status_payload(_issue_status(issue))
         [] n = "Assignee" -> _build_people_payload
         [] n = "Labels" -> _build_labels_payload(_extract_labels(issue.labels))
         [] n = "GitHub URL" -> _build_url_payload(issue.html_url)
         [] n = "GitHub ID" -> _build_rich_text_payload(issue.node_id)
         [] n = "GitHub Number" -> _build_number_payload(issue.number)])

_build_pull_request_properties(pr) ==
  _merge_properties(
    [n \in {"Name", "Status", "Assignee", "Labels", "GitHub URL", "GitHub ID",
            "GitHub Number"} |->
       CASE n = "Name" -> _build_title_payload(Or(pr.title, "(no title)"))
         [] n = "Status" -> _build_status_payload(_pull_request_status(pr))
         [] n = "Assignee" -> _build_people_payload
         [] n = "Labels" -> _build_labels_payload(_extract_labels(pr.labels))
         [] n = "GitHub URL" -> _build_url_payload(pr.html_url)
         [] n = "GitHub ID" -> _build_rich_text_payload(pr.node_id)
         [] n = "GitHub Number" -> _build_number_payload(pr.number)])

\* property_builder(item, target) as sync_issues / sync_pull_requests pass it
property_builder(k, item) ==
  IF k = "pull_requests" THEN _build_pull_request_properties(item)
  ELSE _build_issue_properties(item)

\* iterating "labels": null raises TypeError inside the builder
BuilderRaises(item) == item.labels_null

(* -------------------------------- state -------------------------------- *)
VARIABLES
  impl,      \* the implementation that runs: "items", "engine", "repos", "jobs"
  kind,      \* the entity kind synchronised: "issues", "pull_requests", "repositories"
  listing,   \* the source collection, in source order
  per_page,  \* records in each response page of the listing but the last
  errorAt,   \* the page request the source answers with status >= 400 (0: none)
  dry_run,   \* the dry-run flag of the run
  schema,    \* the target database's properties (name -> type and options)
  pages,     \* the target database: page id -> stored properties
  cache,     \* _page_cache / _repo_page_map: identifier -> page id
  calls,     \* the calls sent to the target API, oldest first
  summary,   \* the summary the running batch operation accumulates
  returned,  \* the summaries returned by the runs that completed
  phase,     \* "fetch", "sync", "returned" (the batch operation returned its
             \* summary), "aborted" (listing the source or building the
             \* records raised) or "raised" (what an item raised left the
             \* batch operation)
  run,       \* the number of the current run
  idx,       \* records of the listing the loop has consumed
  fetched,   \* response pages of the listing received
  faults,    \* target calls answered with an error so far
  probe,     \* one call of a function that is checked by itself: its name,
             \* its arguments and, once it was applied, its result
  _links,    \* DataBridge._links: key -> LinkRecord, in insertion order
  _notion_state, \* DataBridge._notion_state: bucket -> page id -> page
  _log,      \* DataBridge._log: the SyncLogEntry of each action recorded
  _latencies, \* DataBridge._latencies: the latency of each action recorded
  _errors,   \* DataBridge._errors: the messages of the events that failed
  handled    \* the events the DataBridge has handled, oldest first

vars == <<impl, kind, listing, per_page, errorAt, dry_run, schema, pages, cache, calls,
          summary, returned, phase, run, idx, fetched, faults, probe,
          _links, _notion_state, _log, _latencies, _errors, handled>>

\* the state of a synchronisation
sync_state == <<impl, kind, listing, per_page, errorAt, dry_run, schema, pages, cache,
                calls, summary, returned, phase, run, idx, fetched, faults>>

\* the state of a DataBridge
bridge == <<_links, _notion_state, _log, _latencies, _errors, handled>>

inputs == <<impl, kind, listing, per_page, errorAt, dry_run, schema, probe, bridge>>

\* No function is being applied by itself: the state of probe in every run of
\* a synchronisation.
NoProbe == [fn |-> "none"]

NumPages(lst) == PagesOf(lst, per_page)
PageOf(i) == PageAt(i, per_page)

\* which call of the record in hand the target answers with an error
FailPoints == {"none", "query", "write"}

\* what processing one record did: its outcome, the target afterwards, the
\* page cache afterwards and the calls sent
Res(out, pgs, ch, cs) == [out |-> out, pages |-> pgs, cache |-> ch, calls |-> cs]

Faulted(cs) == \E j \in 1..Len(cs) : ~cs[j].ok

\* the fault budget lets this outcome happen, and a fault is only chosen for
\* a call that is sent
\* the faults one behaviour may hold: one more for the repository client,
\* whose error records name the repository, so that two of them can be told
\* apart
FaultBudget == IF impl = "repos" THEN MaxFaults + 1 ELSE MaxFaults

FaultAllowed(fail, r) ==
  /\ Faulted(r.calls) => faults < FaultBudget
  /\ fail # "none" => Faulted(r.calls)

(* ---------------------- entity_sync.py: _sync_items -------------------- *)
\* the body of the for loop of _sync_items for one item
ItemsSyncOne(item, i, fail) ==
  LET github_id == Str(Or(item.node_id, item.id))
      properties == property_builder(kind, item)
      page_id == FirstMatch(pages, "GitHub ID", "rich_text", github_id)
      q(ok) == Call("query", run, i, github_id, IF ok THEN page_id ELSE 0, NoProps, ok)
      u(ok) == Call("update", run, i, github_id, page_id, properties, ok)
      c(ok) == Call("create", run, i, github_id, IF ok THEN Len(pages) + 1 ELSE 0, properties, ok)
  IN IF ~Truthy(github_id) THEN Res("skipped", pages, cache, <<>>)
     ELSE IF BuilderRaises(item) THEN Res("raised", pages, cache, <<>>)
     ELSE IF DOMAIN properties = {} THEN Res("skipped", pages, cache, <<>>)
     ELSE IF fail = "query" THEN Res("raised", pages, cache, <<q(FALSE)>>)
     ELSE IF page_id # 0
          THEN IF fail = "write"
               THEN Res("raised", pages, cache, <<q(TRUE), u(FALSE)>>)
               ELSE Res("updated", UpdatePage(pages, page_id, properties), cache,
                        <<q(TRUE), u(TRUE)>>)
          ELSE IF fail = "write"
               THEN Res("raised", pages, cache, <<q(TRUE), c(FALSE)>>)
               ELSE Res("created", CreatePage(pages, properties), cache,
                        <<q(TRUE), c(TRUE)>>)

\* SyncResult after the item
ItemsCount(sm, out) ==
  CASE out = "created" -> record_created(sm)
    [] out = "updated" -> record_updated(sm)
    [] out = "skipped" -> record_skipped(sm)
    [] OTHER -> sm

\* One iteration of `for item in items`: GitHubClient._paginate requests the
\* next page only when the loop asks for its first item (it is a generator),
\* iter_issues drops the records that carry the pull_request marker, and
\* nothing catches what the builder or the Notion client raises.
ItemsNext ==
  /\ impl = "items" /\ phase = "sync" /\ idx < Len(listing)
  /\ LET i == idx + 1
         item == listing[i]
     IN IF fetched < PageOf(i) /\ errorAt = PageOf(i)
        THEN /\ phase' = "aborted"
             /\ UNCHANGED <<pages, cache, calls, summary, idx, fetched, faults>>
        ELSE /\ fetched' = PageOf(i)
             /\ idx' = i
             /\ IF kind = "issues" /\ item.pull_request
                THEN UNCHANGED <<pages, cache, calls, summary, phase, faults>>
                ELSE \E fail \in FailPoints :
                       LET r == ItemsSyncOne(item, Len(Fetched(kind, SubSeq(listing, 1, i))), fail)
                       IN /\ FaultAllowed(fail, r)
                          /\ pages' = r.pages
                          /\ cache' = r.cache
                          /\ calls' = calls \o r.calls
                          /\ summary' = ItemsCount(summary, r.out)
                          /\ phase' = IF r.out = "raised" THEN "raised" ELSE phase
                          /\ faults' = IF Faulted(r.calls) THEN faults + 1 ELSE faults
  /\ UNCHANGED <<inputs, returned, run>>

\* The generator is exhausted: _sync_items returns its SyncResult.  An empty
\* listing still costs the request of its only page.
ItemsReturn ==
  /\ impl = "items" /\ phase = "sync" /\ idx = Len(listing)
  /\ IF fetched < NumPages(listing) /\ errorAt = fetched + 1
     THEN /\ phase' = "aborted"
          /\ UNCHANGED <<returned, fetched>>
     ELSE /\ phase' = "returned"
          /\ fetched' = NumPages(listing)
          /\ returned' = Append(returned, summary)
  /\ UNCHANGED <<inputs, pages, cache, calls, summary, run, idx, faults>>

(* --------------------- entities.py: PropertyValue ---------------------- *)
\* PropertyValue(value, preferred_types); value is a string, None or, when
\* is_list, the list of strings in list
PropertyValue(v, l, isl, pt) ==
  [value |-> v, list |-> l, is_list |-> isl, preferred_types |-> pt]

PropertyValue_text(v) == PropertyValue(Or(v, ""), <<>>, FALSE, {"rich_text", "title"})
PropertyValue_url(v) == PropertyValue(Or(v, ""), <<>>, FALSE, {"url", "rich_text"})
PropertyValue_status(v) ==
  PropertyValue(Or(v, ""), <<>>, FALSE, {"status", "select", "rich_text"})
\* multi_select that keeps the first occurrence of each value only
PropertyValue_multi_select_distinct(vs) ==
  LET RECURSIVE Distinct(_, _)
      Distinct(rest, seen) ==
        IF rest = <<>> THEN <<>>
        ELSE IF Head(rest) \in seen THEN Distinct(Tail(rest), seen)
             ELSE <<Head(rest)>> \o Distinct(Tail(rest), seen \cup {Head(rest)})
  IN PropertyValue(None, Distinct(vs, {}), TRUE, {"multi_select", "rich_text"})

PropertyValue_multi_select(vs) ==
  PropertyValue(None, vs, TRUE, {"multi_select", "rich_text"})
PropertyValue_number(v) == PropertyValue(v, <<>>, FALSE, {"number", "rich_text"})
PropertyValue_date(v) == PropertyValue(v, <<>>, FALSE, {"date", "rich_text"})

\* str(prop.value)
StrValue(prop) == IF prop.is_list THEN StrList(prop.list) ELSE Str(prop.value)

\* bool(prop.value)
ValueTruthy(prop) == IF prop.is_list THEN prop.list # <<>> ELSE Truthy(prop.value)

NotionRecord(uid, name, props) == [unique_id |-> uid, name |-> name, properties |-> props]

_truncate_text(value) ==
  IF Len(value) <= 1900 THEN value ELSE SubSeq(value, 1, 1900 - 3) \o "..."

(* ---------------------- entities.py: record builders ------------------- *)
\* label.get("name", "") of every label
LabelNames(labels) == [j \in 1..Len(labels) |-> IF labels[j] = None THEN "" ELSE labels[j]]

build_issue_record(issue) ==
  LET labels == LabelNames(issue.labels)
      assignees == LabelNames(issue.assignees)
      names == {"GitHub ID", "GitHub URL", "Status", "Labels", "Assignees",
                "Created", "Updated", "Summary"}
               \cup (IF Truthy(issue.closed_at) THEN {"Closed"} ELSE {})
  IN NotionRecord(
       Str(issue.id),
       IF issue.title = None THEN "Issue" ELSE Str(issue.title),
       [n \in names |->
          CASE n = "GitHub ID" -> PropertyValue_text(Str(issue.id))
            [] n = "GitHub URL" -> PropertyValue_url(issue.html_url)
            [] n = "Status" ->
                 PropertyValue_status(Title(IF issue.state = None THEN "" ELSE Str(issue.state)))
            [] n = "Labels" -> PropertyValue_multi_select(FilterTruthy(labels))
            [] n = "Assignees" ->
                 PropertyValue_text(Or(Join(FilterTruthy(assignees), ", "), "Unassigned"))
            [] n = "Created" -> PropertyValue_date(issue.created_at)
            [] n = "Updated" -> PropertyValue_date(issue.updated_at)
            [] n = "Summary" -> PropertyValue_text(issue.title)
            [] n = "Closed" -> PropertyValue_date(issue.closed_at)])

build_pr_record(pr) ==
  LET labels == LabelNames(pr.labels)
      reviewer_names == LabelNames(pr.requested_reviewers)
      merged_at == pr.merged_at
      state0 == Title(IF pr.state = None THEN "" ELSE Str(pr.state))
      state == IF Truthy(merged_at) THEN "Merged" ELSE state0
      names == {"GitHub ID", "GitHub URL", "Status", "Author", "Labels",
                "Reviewers", "Created", "Updated"}
               \cup (IF Truthy(merged_at) THEN {"Completed"} ELSE {})
  IN NotionRecord(
       Str(pr.id),
       IF pr.title = None THEN "Pull Request" ELSE Str(pr.title),
       [n \in names |->
          CASE n = "GitHub ID" -> PropertyValue_text(Str(pr.id))
            [] n = "GitHub URL" -> PropertyValue_url(pr.html_url)
            [] n = "Status" -> PropertyValue_status(state)
            [] n = "Author" -> PropertyValue_text(Or(pr.user_login, "unknown"))
            [] n = "Labels" -> PropertyValue_multi_select(FilterTruthy(labels))
            [] n = "Reviewers" ->
                 PropertyValue_text(Or(Join(FilterTruthy(reviewer_names), ", "), "None"))
            [] n = "Created" -> PropertyValue_date(pr.created_at)
            [] n = "Updated" -> PropertyValue_date(pr.updated_at)
            [] n = "Completed" -> PropertyValue_date(merged_at)])

\* build_issue_records / build_pr_records, one record per listed item
build_record(k, item) ==
  IF k = "pull_requests" THEN build_pr_record(item) ELSE build_issue_record(item)

(* ------------------- entities.py: EntitySyncEngine --------------------- *)
\* the --unique-property default
unique_property == "GitHub ID"

\* one property of the database schema: its type and the names of the
\* options a select or status property declares
SchemaProp(t, opts) == [type |-> t, options |-> opts]

\* the payload value that _coerce_property returns as None: nothing to write
Omitted == PV("omitted", None, <<>>)

\* what retrieve_database answers when its "properties" is not a mapping
Unreadable == ("properties" :> SchemaProp("not a mapping", {}))

\* _load_database_schema returns the properties (it raises NotionApiError
\* when they are not a mapping)
Readable(sch) == sch # Unreadable

HasTitle(sch) == \E n \in DOMAIN sch : sch[n].type = "title"

\* _find_title_property that falls back to the property called Name when no
\* property is title-typed
_find_title_property_or_name(sch) ==
  IF HasTitle(sch) THEN CHOOSE n \in DOMAIN sch : sch[n].type = "title"
  ELSE IF "Name" \in DOMAIN sch THEN "Name" ELSE None

\* _find_title_property: the title-typed property; None stands for the
\* NotionApiError it raises when there is none
_find_title_property(sch) ==
  IF HasTitle(sch) THEN CHOOSE n \in DOMAIN sch : sch[n].type = "title" ELSE None

\* _build_status that writes any non-empty value, also one the declared
\* options do not hold
_build_status_unrestricted(sp, prop) ==
  IF ~ValueTruthy(prop) THEN Omitted
  ELSE PV("status", StrValue(prop), <<>>)

_build_status(sp, prop) ==
  IF ~ValueTruthy(prop) THEN Omitted
  ELSE IF sp.options # {} /\ StrValue(prop) \notin sp.options THEN Omitted
       ELSE PV("status", StrValue(prop), <<>>)

_build_select(sp, prop) ==
  IF ~ValueTruthy(prop) THEN Omitted
  ELSE IF sp.options # {} /\ StrValue(prop) \notin sp.options THEN Omitted
       ELSE PV("select", StrValue(prop), <<>>)

\* json of float(s)
Float(s) == s \o ".0"

\* _coerce_property without the test of the preferred types: every field is
\* coerced to whatever type the schema declares
_coerce_property_any_type(prop, sp) ==
  LET notion_type == sp.type
  IN IF FALSE
     THEN Omitted
     ELSE CASE notion_type = "title" -> PV("title", _truncate_text(StrValue(prop)), <<>>)
            [] notion_type = "rich_text" ->
                 PV("rich_text", _truncate_text(StrValue(prop)), <<>>)
            [] notion_type = "url" ->
                 PV("url", IF ValueTruthy(prop) THEN StrValue(prop) ELSE None, <<>>)
            [] notion_type = "number" ->
                 IF ~prop.is_list /\ prop.value \in {None, ""} THEN PV("number", None, <<>>)
                 ELSE IF ~prop.is_list /\ IsNumeric(prop.value)
                      THEN PV("number", Float(prop.value), <<>>)
                      ELSE Omitted
            [] notion_type = "multi_select" ->
                 LET values == IF prop.is_list THEN prop.list
                               ELSE IF Truthy(prop.value) THEN <<Str(prop.value)>>
                                    ELSE <<>>
                 IN PV("multi_select", None, FilterTruthy(values))
            [] notion_type = "status" -> _build_status(sp, prop)
            [] notion_type = "select" -> _build_select(sp, prop)
            [] notion_type = "date" ->
                 PV("date", IF ValueTruthy(prop) THEN StrValue(prop) ELSE None, <<>>)
            [] OTHER -> Omitted

_coerce_property(prop, sp) ==
  LET notion_type == sp.type
  IN IF notion_type \notin prop.preferred_types /\ notion_type # "rich_text"
     THEN Omitted
     ELSE CASE notion_type = "title" -> PV("title", _truncate_text(StrValue(prop)), <<>>)
            [] notion_type = "rich_text" ->
                 PV("rich_text", _truncate_text(StrValue(prop)), <<>>)
            [] notion_type = "url" ->
                 PV("url", IF ValueTruthy(prop) THEN StrValue(prop) ELSE None, <<>>)
            [] notion_type = "number" ->
                 IF ~prop.is_list /\ prop.value \in {None, ""} THEN PV("number", None, <<>>)
                 ELSE IF ~prop.is_list /\ IsNumeric(prop.value)
                      THEN PV("number", Float(prop.value), <<>>)
                      ELSE Omitted
            [] notion_type = "multi_select" ->
                 LET values == IF prop.is_list THEN prop.list
                               ELSE IF Truthy(prop.value) THEN <<Str(prop.value)>>
                                    ELSE <<>>
                 IN PV("multi_select", None, FilterTruthy(values))
            [] notion_type = "status" -> _build_status(sp, prop)
            [] notion_type = "select" -> _build_select(sp, prop)
            [] notion_type = "date" ->
                 PV("date", IF ValueTruthy(prop) THEN StrValue(prop) ELSE None, <<>>)
            [] OTHER -> Omitted

\* _build_payload that coerces a property the schema lacks as rich_text
\* (schema.get(name, {"type": "rich_text"})) in place of leaving it out
_build_payload_default_type(sch, record) ==
  LET title_property == _find_title_property(sch)
      schema_of(n) == IF n \in DOMAIN sch THEN sch[n] ELSE SchemaProp("rich_text", {})
      written ==
        {n \in DOMAIN record.properties :
           /\ n # title_property
           /\ _coerce_property(record.properties[n], schema_of(n)) # Omitted}
  IN [n \in written \cup {title_property} |->
        IF n = title_property
        THEN _coerce_property(PropertyValue_text(record.name), sch[title_property])
        ELSE _coerce_property(record.properties[n], schema_of(n))]

\* the "properties" of the page payload
_build_payload(sch, record) ==
  LET title_property == _find_title_property(sch)
      written ==
        {n \in DOMAIN record.properties :
           /\ n # title_property
           /\ n \in DOMAIN sch
           /\ _coerce_property(record.properties[n], sch[n]) # Omitted}
  IN [n \in written \cup {title_property} |->
        IF n = title_property
        THEN _coerce_property(PropertyValue_text(record.name), sch[title_property])
        ELSE _coerce_property(record.properties[n], sch[n])]

\* the equals filter on the unique property, as <<filter type, value>>;
\* <<>> is None
_build_unique_filter(sch, unique_id) ==
  LET notion_type == IF unique_property \in DOMAIN sch
                     THEN sch[unique_property].type ELSE None
  IN CASE notion_type = "rich_text" -> <<"rich_text", unique_id>>
       [] notion_type = "title" -> <<"title", unique_id>>
       [] notion_type = "number" ->
            IF IsNumeric(unique_id) THEN <<"number", Float(unique_id)>> ELSE <<>>
       [] notion_type = "url" -> <<"url", unique_id>>
       [] OTHER -> <<>>

\* _resolve_page_id that answers from the page cache alone: a miss is None
_resolve_page_id_cache_only(unique_id) ==
  LET cached == unique_id \in DOMAIN cache
  IN [queried |-> FALSE,
      page_id |-> IF cached THEN cache[unique_id] ELSE 0,
      cache |-> cache]

\* _resolve_page_id that returns the first result of the query without
\* caching it
_resolve_page_id_forgetful(unique_id) ==
  LET filter_body == _build_unique_filter(schema, unique_id)
      cached == unique_id \in DOMAIN cache
      queried == ~cached /\ unique_property \in DOMAIN schema /\ filter_body # <<>>
      hit == IF queried
             THEN FirstMatch(pages, unique_property, filter_body[1], filter_body[2])
             ELSE 0
  IN [queried |-> queried,
      page_id |-> IF cached THEN cache[unique_id] ELSE hit,
      cache |-> cache]

\* _resolve_page_id: a cache hit answers without a query; without a schema
\* for the unique property, or without a filter for its type, the answer is
\* None (page_id 0) and no query is sent; else the first result of the
\* equals query is cached and returned
_resolve_page_id(unique_id) ==
  LET filter_body == _build_unique_filter(schema, unique_id)
      cached == unique_id \in DOMAIN cache
      queried == ~cached /\ unique_property \in DOMAIN schema /\ filter_body # <<>>
      hit == IF queried
             THEN FirstMatch(pages, unique_property, filter_body[1], filter_body[2])
             ELSE 0
  IN [queried |-> queried,
      page_id |-> IF cached THEN cache[unique_id] ELSE hit,
      cache |-> IF hit # 0 THEN Override(cache, unique_id :> hit) ELSE cache]

\* _sync_single that resolves the page before it tests dry_run
_sync_single_lookup_first(record, i, fail) ==
  LET uid == record.unique_id
      properties == _build_payload(schema, record)
      found == _resolve_page_id(uid)
      page_id == found.page_id
      q(ok) == IF found.queried
               THEN <<Call("query", run, i, uid, IF ok THEN page_id ELSE 0, NoProps, ok)>>
               ELSE <<>>
      u(ok) == Call("update", run, i, uid, page_id, properties, ok)
      c(ok) == Call("create", run, i, uid, IF ok THEN Len(pages) + 1 ELSE 0, properties, ok)
  IN IF found.queried /\ fail = "query" THEN Res("failed", pages, cache, q(FALSE))
     ELSE IF dry_run THEN Res("succeeded", pages, found.cache, q(TRUE))
     ELSE IF page_id # 0
          THEN IF fail = "write"
               THEN Res("failed", pages, found.cache, q(TRUE) \o <<u(FALSE)>>)
               ELSE Res("succeeded", UpdatePage(pages, page_id, properties),
                        Override(found.cache, uid :> page_id), q(TRUE) \o <<u(TRUE)>>)
          ELSE IF fail = "write"
               THEN Res("failed", pages, found.cache, q(TRUE) \o <<c(FALSE)>>)
               ELSE Res("succeeded", CreatePage(pages, properties),
                        Override(found.cache, uid :> (Len(pages) + 1)),
                        q(TRUE) \o <<c(TRUE)>>)

\* _sync_single: _build_payload, the dry-run return, _resolve_page_id and
\* the update or create with the cache entry that follows it
_sync_single(record, i, fail) ==
  LET uid == record.unique_id
      properties == _build_payload(schema, record)
      found == _resolve_page_id(uid)
      page_id == found.page_id
      q(ok) == IF found.queried
               THEN <<Call("query", run, i, uid, IF ok THEN page_id ELSE 0, NoProps, ok)>>
               ELSE <<>>
      u(ok) == Call("update", run, i, uid, page_id, properties, ok)
      c(ok) == Call("create", run, i, uid, IF ok THEN Len(pages) + 1 ELSE 0, properties, ok)
  IN IF dry_run THEN Res("succeeded", pages, cache, <<>>)
     ELSE IF found.queried /\ fail = "query" THEN Res("failed", pages, cache, q(FALSE))
     ELSE IF page_id # 0
          THEN IF fail = "write"
               THEN Res("failed", pages, found.cache, q(TRUE) \o <<u(FALSE)>>)
               ELSE Res("succeeded", UpdatePage(pages, page_id, properties),
                        Override(found.cache, uid :> page_id), q(TRUE) \o <<u(TRUE)>>)
          ELSE IF fail = "write"
               THEN Res("failed", pages, found.cache, q(TRUE) \o <<c(FALSE)>>)
               ELSE Res("succeeded", CreatePage(pages, properties),
                        Override(found.cache, uid :> (Len(pages) + 1)),
                        q(TRUE) \o <<c(TRUE)>>)

\* EntitySyncEngine.__init__ raises: the schema cannot be read or has no
\* title property
EngineInitRaises(sch) == ~Readable(sch) \/ _find_title_property(sch) = None

\* sync_entities.main up to engine.sync: the engine is built first (what its
\* constructor raises leaves main), then the fetcher lists every page
\* (GitHubDataFetcher._paginate raises GitHubApiError on a status >= 400) and
\* the builder turns the whole list into records; what either raises leaves main
EngineFetch ==
  /\ impl = "engine" /\ phase = "fetch"
  /\ IF EngineInitRaises(schema) \/ errorAt # 0 \/ \E j \in 1..Len(Fetched(kind, listing)) :
                          BuilderRaises(Fetched(kind, listing)[j])
     THEN phase' = "aborted" /\ UNCHANGED fetched
     ELSE phase' = "sync" /\ fetched' = NumPages(listing)
  /\ UNCHANGED <<inputs, pages, cache, calls, summary, returned, run, idx, faults>>

\* one iteration of the loop of EntitySyncEngine.sync
EngineNext ==
  /\ impl = "engine" /\ phase = "sync" /\ idx < Len(Fetched(kind, listing))
  /\ LET i == idx + 1
         record == build_record(kind, Fetched(kind, listing)[i])
     IN \E fail \in FailPoints :
          LET r == _sync_single(record, i, fail)
          IN /\ FaultAllowed(fail, r)
             /\ pages' = r.pages
             /\ cache' = r.cache
             /\ calls' = calls \o r.calls
             /\ summary' = IF r.out = "failed"
                           THEN record_failure(summary, "None", "NotionApiError")
                           ELSE record_success(summary)
             /\ faults' = IF Faulted(r.calls) THEN faults + 1 ELSE faults
             /\ idx' = i
  /\ UNCHANGED <<inputs, returned, phase, run, fetched>>

\* EntitySyncEngine.sync returns its summary
EngineReturn ==
  /\ impl = "engine" /\ phase = "sync" /\ idx = Len(Fetched(kind, listing))
  /\ phase' = "returned"
  /\ returned' = Append(returned, summary)
  /\ UNCHANGED <<inputs, pages, cache, calls, summary, run, idx, fetched, faults>>

(* --------------- client.py: NotionSyncClient.sync_repositories -------- *)
\* a record of the GitHub repository listing
Repository(id, name, full, url, descr, topics) ==
  [id |-> id, name |-> name, full_name |-> full, html_url |-> url,
   description |-> descr, topics |-> topics, pushed_at |-> None]

RepoFirst == Repository("1", "first", "org/first", "https://github.com/org/first",
                        "First repository", <<"alpha">>)
RepoSecond == Repository("2", "second", "org/second", "https://github.com/org/second",
                         "Second repository", <<"beta">>)
RepoBare == Repository("3", None, "org/third", None, None, <<>>)

RepoSamples == {RepoFirst, RepoSecond, RepoBare}

\* the --repo-id-property default
repo_id_property == "Repository ID"

\* mappers._rich_text
_rich_text(content) == PV("rich_text", Or(content, ""), <<>>)

\* str(topic) for the topics with str(topic).strip()
Topics(topics) == FilterTruthy(topics)

\* the "properties" of mappers.build_page_payload
build_page_payload(repository) ==
  LET repo_id == IF repository.id = None THEN "" ELSE Str(repository.id)
      name == Or(Or(repository.name, repository.full_name), repo_id)
      names == {"Name", repo_id_property, "Repository", "Description"}
               \cup (IF Truthy(repository.pushed_at) THEN {"Last Push"} ELSE {})
               \cup (IF repository.topics # <<>> THEN {"Topics"} ELSE {})
  IN [n \in names |->
        CASE n = "Name" -> PV("title", Str(name), <<>>)
          [] n = repo_id_property -> _rich_text(repo_id)
          [] n = "Repository" ->
               PV("url", IF Truthy(repository.html_url) THEN Str(repository.html_url)
                         ELSE None, <<>>)
          [] n = "Description" -> _rich_text(Or(repository.description, ""))
          [] n = "Last Push" -> PV("date", Str(repository.pushed_at), <<>>)
          [] n = "Topics" -> PV("multi_select", None, Topics(repository.topics))]

\* _sync_single_repository: the payload, _resolve_page_id (page map, then
\* the equals query), and only then the dry-run test and the write
RepoSyncOne(repository, i, fail) ==
  LET repo_identifier == Str(repository.id)
      properties == build_page_payload(repository)
      cached == repo_identifier \in DOMAIN cache
      hit == IF cached THEN 0
             ELSE FirstMatch(pages, repo_id_property, "rich_text", repo_identifier)
      existing_page_id == IF cached THEN cache[repo_identifier] ELSE hit
      resolved == IF hit # 0 THEN Override(cache, repo_identifier :> hit) ELSE cache
      q(ok) == IF cached THEN <<>>
               ELSE <<Call("query", run, i, repo_identifier, IF ok THEN hit ELSE 0,
                           NoProps, ok)>>
      u(ok) == Call("update", run, i, repo_identifier, existing_page_id, properties, ok)
      c(ok) == Call("create", run, i, repo_identifier, IF ok THEN Len(pages) + 1 ELSE 0, properties, ok)
  IN IF ~cached /\ fail = "query" THEN Res("failed", pages, cache, q(FALSE))
     ELSE IF dry_run THEN Res("succeeded", pages, resolved, q(TRUE))
     ELSE IF existing_page_id # 0
          THEN IF fail = "write"
               THEN Res("failed", pages, resolved, q(TRUE) \o <<u(FALSE)>>)
               ELSE Res("succeeded", UpdatePage(pages, existing_page_id, properties),
                        Override(resolved, repo_identifier :> existing_page_id),
                        q(TRUE) \o <<u(TRUE)>>)
          ELSE IF fail = "write"
               THEN Res("failed", pages, resolved, q(TRUE) \o <<c(FALSE)>>)
               ELSE Res("succeeded", CreatePage(pages, properties),
                        Override(resolved, repo_identifier :> (Len(pages) + 1)),
                        q(TRUE) \o <<c(TRUE)>>)

\* sync_repositories without the except GitHubApiError branch: the error of
\* the listing leaves it
RepoFetch_uncaught ==
  /\ impl = "repos" /\ phase = "fetch"
  /\ IF errorAt # 0
     THEN /\ phase' = "aborted"
          /\ UNCHANGED <<summary, returned, fetched>>
     ELSE /\ phase' = "sync"
          /\ fetched' = NumPages(listing)
          /\ UNCHANGED <<summary, returned>>
  /\ UNCHANGED <<inputs, pages, cache, calls, run, idx, faults>>

\* list(self._github.list_repositories()): every page is requested before the
\* loop; a GitHubApiError becomes the single failure of the summary, which
\* is returned at once
RepoFetch ==
  /\ impl = "repos" /\ phase = "fetch"
  /\ IF errorAt # 0
     THEN /\ phase' = "returned"
          /\ summary' = record_failure(summary, "<github>", "GitHubApiError")
          /\ returned' = Append(returned, summary')
          /\ UNCHANGED fetched
     ELSE /\ phase' = "sync"
          /\ fetched' = NumPages(listing)
          /\ UNCHANGED <<summary, returned>>
  /\ UNCHANGED <<inputs, pages, cache, calls, run, idx, faults>>

\* one iteration of the loop of sync_repositories
RepoNext ==
  /\ impl = "repos" /\ phase = "sync" /\ idx < Len(listing)
  /\ LET i == idx + 1
         repository == listing[i]
     IN \E fail \in FailPoints :
          LET r == RepoSyncOne(repository, i, fail)
          IN /\ FaultAllowed(fail, r)
             /\ pages' = r.pages
             /\ cache' = r.cache
             /\ calls' = calls \o r.calls
             /\ summary' = IF r.out = "failed"
                           THEN record_failure(summary,
                                  Str(Or(repository.full_name, repository.name)),
                                  "NotionApiError")
                           ELSE record_success(summary)
             /\ faults' = IF Faulted(r.calls) THEN faults + 1 ELSE faults
             /\ idx' = i
  /\ UNCHANGED <<inputs, returned, phase, run, fetched>>

RepoReturn ==
  /\ impl = "repos" /\ phase = "sync" /\ idx = Len(listing)
  /\ phase' = "returned"
  /\ returned' = Append(returned, summary)
  /\ UNCHANGED <<inputs, pages, cache, calls, summary, run, idx, fetched, faults>>

(* ------------------ jobs.py: sync_entities over upsert ----------------- *)
\* how a failing call fails: the target answers with a status >= 400, or
\* requests raises (timeout, connection reset) before any answer
FailModes == {"status", "transport"}

\* NOTION_*_ID_PROPERTY default
id_property == "GitHub ID"

\* dt.datetime.utcnow().isoformat() at the time of the run
UtcNow == "2024-03-03T12:00:00"

\* GitHubDataFetcher.issues / pull_requests: one GitHubEntity per record
GitHubEntity(item) ==
  [external_id |-> Str(item.id),
   title |-> IF item.title = None THEN "Untitled" ELSE item.title,
   url |-> IF item.html_url = None THEN "" ELSE item.html_url,
   state |-> IF item.state = None THEN "unknown" ELSE item.state,
   authored_by |-> item.user_login,
   assignees |-> item.assignees,
   labels |-> item.labels,
   last_updated |-> item.updated_at,
   merged_at |-> item.merged_at]

\* NotionClient._build_properties without additional_properties
_build_properties(entity) ==
  LET names == {"Name", id_property, "GitHub URL", "State", "Last Synced"}
               \cup (IF Truthy(entity.authored_by) THEN {"Author"} ELSE {})
               \cup (IF entity.assignees # <<>> THEN {"Assignees"} ELSE {})
               \cup (IF entity.labels # <<>> THEN {"Labels"} ELSE {})
               \cup (IF Truthy(entity.last_updated) THEN {"GitHub Updated"} ELSE {})
  IN [n \in names |->
        CASE n = "Name" -> PV("title", Prefix(entity.title, 2000), <<>>)
          [] n = id_property -> PV("rich_text", entity.external_id, <<>>)
          [] n = "GitHub URL" -> PV("url", entity.url, <<>>)
          [] n = "State" -> PV("select", Title(entity.state), <<>>)
          [] n = "Last Synced" -> PV("date", UtcNow, <<>>)
          [] n = "Author" -> PV("rich_text", entity.authored_by, <<>>)
          [] n = "Assignees" ->
               PV("multi_select", None, SubSeq(entity.assignees, 1, Min(Len(entity.assignees), 25)))
          [] n = "Labels" ->
               PV("multi_select", None, SubSeq(entity.labels, 1, Min(Len(entity.labels), 25)))
          [] n = "GitHub Updated" -> PV("date", entity.last_updated, <<>>)]

\* NotionClient.upsert: the status it returns ("dry-run", "error",
\* "updated", "created"), or "raised" when requests raises inside a call
JobsUpsert(entity, i, fail, mode) ==
  LET payload == _build_properties(entity)
      page_id == FirstMatch(pages, id_property, "rich_text", entity.external_id)
      q(ok) == Call("query", run, i, entity.external_id, IF ok THEN page_id ELSE 0,
                    NoProps, ok)
      u(ok) == Call("update", run, i, entity.external_id, page_id, payload, ok)
      c(ok) == Call("create", run, i, entity.external_id, IF ok THEN Len(pages) + 1 ELSE 0, payload, ok)
      failed == IF mode = "transport" THEN "raised" ELSE "error"
  IN IF dry_run THEN Res("dry-run", pages, cache, <<>>)
     ELSE IF fail = "query" THEN Res(failed, pages, cache, <<q(FALSE)>>)
     ELSE IF page_id # 0
          THEN IF fail = "write"
               THEN Res(failed, pages, cache, <<q(TRUE), u(FALSE)>>)
               ELSE Res("updated", UpdatePage(pages, page_id, payload), cache,
                        <<q(TRUE), u(TRUE)>>)
          ELSE IF fail = "write"
               THEN Res(failed, pages, cache, <<q(TRUE), c(FALSE)>>)
               ELSE Res("created", CreatePage(pages, payload), cache,
                        <<q(TRUE), c(TRUE)>>)

\* the records GitHubDataFetcher._request returns: the first response page
\* only (it follows no next link); issues() drops the pull_request records
JobsBatch ==
  LET first == SubSeq(listing, 1, Min(Len(listing), per_page))
  IN IF kind = "issues" THEN WithoutMarker(first) ELSE first

\* sync_issues / sync_pull_requests up to sync_entities: raise_for_status
\* raises on a status >= 400, and building the entities iterates the labels
JobsFetch ==
  /\ impl = "jobs" /\ phase = "fetch"
  /\ IF errorAt = 1 \/ \E j \in 1..Len(JobsBatch) : BuilderRaises(JobsBatch[j])
     THEN phase' = "aborted" /\ UNCHANGED fetched
     ELSE phase' = "sync" /\ fetched' = 1
  /\ UNCHANGED <<inputs, pages, cache, calls, summary, returned, run, idx, faults>>

\* the summary dict of sync_entities after one entity
JobsCount(sm, status) ==
  LET counted == [sm EXCEPT !.processed = @ + 1]
  IN CASE status = "created" -> [counted EXCEPT !.created = @ + 1]
       [] status = "updated" -> [counted EXCEPT !.updated = @ + 1]
       [] status \in {"error", "not-found"} -> [counted EXCEPT !.job_errors = @ + 1]
       [] OTHER -> counted

\* one iteration of the loop of sync_entities
JobsNext ==
  /\ impl = "jobs" /\ phase = "sync" /\ idx < Len(JobsBatch)
  /\ LET i == idx + 1
         entity == GitHubEntity(JobsBatch[i])
     IN \E fail \in FailPoints, mode \in FailModes :
          LET r == JobsUpsert(entity, i, fail, mode)
          IN /\ FaultAllowed(fail, r)
             /\ fail = "none" => mode = "status"
             /\ pages' = r.pages
             /\ cache' = r.cache
             /\ calls' = calls \o r.calls
             /\ summary' = JobsCount(summary, r.out)
             /\ phase' = IF r.out = "raised" THEN "raised" ELSE phase
             /\ faults' = IF Faulted(r.calls) THEN faults + 1 ELSE faults
             /\ idx' = i
  /\ UNCHANGED <<inputs, returned, run, fetched>>

JobsReturn ==
  /\ impl = "jobs" /\ phase = "sync" /\ idx = Len(JobsBatch)
  /\ phase' = "returned"
  /\ returned' = Append(returned, summary)
  /\ UNCHANGED <<inputs, pages, cache, calls, summary, run, idx, fetched, faults>>

(* --------------------------- schemas of the target --------------------- *)
FullSchema ==
  [n \in {"Name", "GitHub ID", "GitHub URL", "Status", "Labels", "Assignees",
          "Created", "Updated", "Summary", "Closed", "Completed", "Author",
          "Reviewers"} |->
     CASE n = "Name" -> SchemaProp("title", {})
       [] n = "GitHub URL" -> SchemaProp("url", {})
       [] n = "Status" -> SchemaProp("status", {"Open", "Closed"})
       [] n = "Labels" -> SchemaProp("multi_select", {})
       [] n \in {"Created", "Updated", "Closed", "Completed"} -> SchemaProp("date", {})
       [] OTHER -> SchemaProp("rich_text", {})]

\* no Labels property and no identifier property
BareSchema ==
  [n \in {"Name", "Status", "GitHub URL"} |->
     CASE n = "Name" -> SchemaProp("title", {})
       [] n = "Status" -> SchemaProp("select", {})
       [] OTHER -> SchemaProp("url", {})]

\* the identifier property is a number, labels and status are plain text
NumberIdSchema ==
  [n \in {"Title", "GitHub ID", "Status", "Labels", "Created"} |->
     CASE n = "Title" -> SchemaProp("title", {})
       [] n = "GitHub ID" -> SchemaProp("number", {})
       [] n = "Created" -> SchemaProp("date", {})
       [] OTHER -> SchemaProp("rich_text", {})]

SchemaSamples == {FullSchema, BareSchema, NumberIdSchema}

\* no title-typed property: Name is plain text
NoTitleSchema ==
  [n \in {"Name", "GitHub ID", "Status"} |->
     CASE n = "Status" -> SchemaProp("select", {})
       [] OTHER -> SchemaProp("rich_text", {})]

\* the databases the engine is built against
EngineSchemas == SchemaSamples \cup {NoTitleSchema, Unreadable}

(* ------------------- integrations/data_bridge.py ---------------------- *)
\* A LinkRecord.  Two keys of _links can hold the same object, and
\* process_notion_status_change assigns to a field of the object it finds:
\* obj tells the objects apart (the number of the event that made it).
LinkRecord(github_id, notion_page_id, entity_type, status, obj) ==
  [github_id |-> github_id, notion_page_id |-> notion_page_id,
   entity_type |-> entity_type, status |-> status, obj |-> obj]

Buckets == {"task_backlog", "pr_backlog", "discussions_archive"}

\* a dict as the sequence of its items: d.get(k) (position 0: no such key),
\* d[k], and d[k] = v, which keeps the place of a key the dict holds already
Find(d, k) ==
  LET at == {i \in 1..Len(d) : d[i].key = k}
  IN IF at = {} THEN 0 ELSE CHOOSE i \in at : TRUE

Get(d, k) == d[Find(d, k)].link

Put(d, k, v) ==
  IF Find(d, k) = 0 THEN Append(d, [key |-> k, link |-> v])
  ELSE [d EXCEPT ![Find(d, k)].link = v]

\* DataBridge._resolve_or_create_page: the page id and _links afterwards
_resolve_or_create_page(links, github_id, bucket, obj) ==
  LET found == {i \in 1..Len(links) : links[i].link.github_id = github_id}
      first == CHOOSE i \in found : \A j \in found : i <= j
      page_id == "notion-" \o github_id
  IN IF found # {}
     THEN [page_id |-> links[first].link.notion_page_id, links |-> links]
     ELSE [page_id |-> page_id,
           links |-> Put(links, page_id,
                         LinkRecord(github_id, page_id, bucket, "Backlog", obj))]

\* DataBridge._update_link: one new object under both keys
_update_link(links, github_id, page_id, entity_type, status, obj) ==
  LET link == LinkRecord(github_id, page_id, entity_type, status, obj)
  IN Put(Put(links, github_id, link), page_id, link)

SyncLogEntry(direction, entity_type, identifier, message, latency_ms) ==
  [direction |-> direction, entity_type |-> entity_type,
   identifier |-> identifier, message |-> message, latency_ms |-> latency_ms]

\* DataBridge._record
_record(direction, entity_type, identifier, message, latency_ms) ==
  /\ _log' = Append(_log, SyncLogEntry(direction, entity_type, identifier,
                                       message, latency_ms))
  /\ _latencies' = Append(_latencies, latency_ms)

\* build_report without the test of the key: every entry of the dict
build_report_every_key(links, log, errors) ==
  [entities_synced |-> Len(log), error_count |-> Len(errors),
   details |-> log, links |-> [i \in 1..Len(links) |-> links[i].link]]

\* DataBridge.build_report over a link map, a log and an error list; the
\* time of the report and the mean of the latencies are left out
RECURSIVE ReportLinks(_, _)
ReportLinks(links, i) ==
  IF i > Len(links) THEN <<>>
  ELSE IF links[i].key # links[i].link.github_id THEN ReportLinks(links, i + 1)
  ELSE <<links[i].link>> \o ReportLinks(links, i + 1)

build_report(links, log, errors) ==
  [entities_synced |-> Len(log), error_count |-> Len(errors),
   details |-> log, links |-> ReportLinks(links, 1)]

\* the events a DataBridge is given
GitHubIds == {"1", "2"}
NotionPageIds == {"notion-1", "page-9"}
\* the latency a handler records when it is given none
Latency == 0

GitHubIssueEvents ==
  [type : {"issue"}, id : GitHubIds, title : {"Fix sync"}, state : {"open", "closed"}]
GitHubPullRequestEvents ==
  [type : {"pull_request"}, id : GitHubIds, title : {"Add sync"}, state : {"open", "merged"}]
GitHubDiscussionEvents ==
  [type : {"discussion"}, id : GitHubIds, title : {"Ideas"}]
NotionTaskEvents ==
  [type : {"task"}, page_id : NotionPageIds, title : {"Plan"}, status : {"Backlog"}]
NotionStatusChangeEvents ==
  [type : {"status_change"}, page_id : NotionPageIds, status : {"Done"}]

\* DataBridge.__init__
InitBridge ==
  /\ _links = <<>>
  /\ _notion_state = [b \in Buckets |-> <<>>]
  /\ _log = <<>>
  /\ _latencies = <<>>
  /\ _errors = <<>>
  /\ handled = <<>>

\* DataBridge.process_github_issue; number and url follow from the id
process_github_issue ==
  \E event \in GitHubIssueEvents :
    /\ Len(handled) < MaxEvents
    /\ LET obj == Len(handled) + 1
           r == _resolve_or_create_page(_links, event.id, "task_backlog", obj)
           status == IF event.state = "closed" THEN "Done" ELSE "Backlog"
           page == [title |-> event.title, issue_number |-> event.id,
                    url |-> "https://github.com/issues/" \o event.id,
                    status |-> status]
       IN /\ _notion_state' =
               [_notion_state EXCEPT !["task_backlog"] = Override(@, r.page_id :> page)]
          /\ _links' = _update_link(r.links, event.id, r.page_id, "issue", status, obj)
          /\ _record("GitHub->Notion", "issue", event.id,
                     "Synced issue #" \o event.id, Latency)
    /\ handled' = Append(handled, event)
    /\ UNCHANGED <<_errors, sync_state, probe>>

\* DataBridge.process_github_pull_request
process_github_pull_request ==
  \E event \in GitHubPullRequestEvents :
    /\ Len(handled) < MaxEvents
    /\ LET obj == Len(handled) + 1
           r == _resolve_or_create_page(_links, event.id, "pr_backlog", obj)
           status == IF event.state \in {"merged", "closed"} THEN "Done" ELSE "In Review"
           page == [title |-> event.title, pr_number |-> event.id,
                    url |-> "https://github.com/pull/" \o event.id,
                    status |-> status]
       IN /\ _notion_state' =
               [_notion_state EXCEPT !["pr_backlog"] = Override(@, r.page_id :> page)]
          /\ _links' = _update_link(r.links, event.id, r.page_id, "pull_request", status, obj)
          /\ _record("GitHub->Notion", "pull_request", event.id,
                     "Synced PR #" \o event.id, Latency)
    /\ handled' = Append(handled, event)
    /\ UNCHANGED <<_errors, sync_state, probe>>

\* DataBridge.process_github_discussion
process_github_discussion ==
  \E event \in GitHubDiscussionEvents :
    /\ Len(handled) < MaxEvents
    /\ LET obj == Len(handled) + 1
           r == _resolve_or_create_page(_links, event.id, "discussions_archive", obj)
           page == [title |-> event.title,
                    url |-> "https://github.com/discussions/" \o event.id,
                    category |-> None, archived |-> TRUE]
       IN /\ _notion_state' =
               [_notion_state EXCEPT !["discussions_archive"] = Override(@, r.page_id :> page)]
          /\ _links' = _update_link(r.links, event.id, r.page_id, "discussion", "Archived", obj)
          /\ _record("GitHub->Notion", "discussion", event.id, "Archived discussion", Latency)
    /\ handled' = Append(handled, event)
    /\ UNCHANGED <<_errors, sync_state, probe>>

\* DataBridge.process_notion_task
process_notion_task ==
  \E event \in NotionTaskEvents :
    /\ Len(handled) < MaxEvents
    /\ LET github_id == "gh-issue-" \o event.page_id
       IN /\ _links' = _update_link(_links, github_id, event.page_id, "issue",
                                    event.status, Len(handled) + 1)
          /\ _record("Notion->GitHub", "issue", github_id,
                     "Created GitHub issue from Notion task", Latency)
    /\ handled' = Append(handled, event)
    /\ UNCHANGED <<_notion_state, _errors, sync_state, probe>>

\* process_notion_status_change that records the event for an unknown page too
process_notion_status_change_recorded ==
  \E event \in NotionStatusChangeEvents :
    /\ Len(handled) < MaxEvents
    /\ _errors' = Append(_errors, "Missing link for Notion page " \o event.page_id)
    /\ _record("Notion->GitHub", "issue", event.page_id, "Mirrored status change", Latency)
    /\ handled' = Append(handled, event)
    /\ UNCHANGED <<_links, _notion_state, sync_state, probe>>

\* the object process_notion_status_change finds for a page id: the one
\* under that key, else the first whose notion_page_id it is (position 0:
\* none)
LinkOfPage(links, page_id) ==
  LET pointing == {i \in 1..Len(links) : links[i].link.notion_page_id = page_id}
  IN IF Find(links, page_id) # 0 THEN Find(links, page_id)
     ELSE IF pointing = {} THEN 0
     ELSE CHOOSE i \in pointing : \A j \in pointing : i <= j

\* DataBridge.process_notion_status_change; `link.status = ...` is seen
\* under every key that holds the object
process_notion_status_change ==
  \E event \in NotionStatusChangeEvents :
    /\ Len(handled) < MaxEvents
    /\ LET at == LinkOfPage(_links, event.page_id)
       IN IF at = 0
          THEN /\ _errors' = Append(_errors, "Missing link for Notion page " \o event.page_id)
               /\ UNCHANGED <<_links, _log, _latencies>>
          ELSE LET link == _links[at].link
               IN /\ _links' = [i \in 1..Len(_links) |->
                                  IF _links[i].link.obj = link.obj
                                  THEN [_links[i] EXCEPT !.link.status = event.status]
                                  ELSE _links[i]]
                  /\ _record("Notion->GitHub", link.entity_type, link.github_id,
                             "Mirrored status change", Latency)
                  /\ UNCHANGED _errors
    /\ handled' = Append(handled, event)
    /\ UNCHANGED <<_notion_state, sync_state, probe>>

(* ------------------------------ the runs ------------------------------- *)
\* The next scheduled invocation: a new process (empty page cache, fresh
\* summary) lists the same collection against the target as the last run
\* left it.
RunAgain ==
  /\ phase = "returned" /\ run < MaxRuns
  /\ run' = run + 1
  /\ phase' = IF impl = "items" THEN "sync" ELSE "fetch"
  /\ cache' = NoProps
  /\ summary' = NewSummary
  /\ idx' = 0
  /\ fetched' = 0
  /\ UNCHANGED <<inputs, pages, calls, returned, faults>>

InitItems ==
  /\ impl = "items"
  /\ kind \in {"issues", "pull_requests"}
  /\ listing \in Listings(ItemSamples(kind))
  /\ per_page \in PageSizes
  /\ errorAt \in 0..PagesOf(listing, per_page)
  /\ dry_run = FALSE
  /\ schema = NoProps
  /\ phase = "sync"

InitEngine ==
  /\ impl = "engine"
  /\ kind \in {"issues", "pull_requests"}
  /\ listing \in Listings(SourceSamples(kind))
  /\ per_page = PerPage
  /\ errorAt \in 0..PagesOf(listing, per_page)
  /\ dry_run \in BOOLEAN
  /\ schema \in EngineSchemas
  /\ phase = "fetch"

InitRepos ==
  /\ impl = "repos"
  /\ kind = "repositories"
  /\ listing \in Listings(RepoSamples)
  /\ per_page = PerPage
  /\ errorAt \in 0..PagesOf(listing, per_page)
  /\ dry_run \in BOOLEAN
  /\ schema = NoProps
  /\ phase = "fetch"

InitJobs ==
  /\ impl = "jobs"
  /\ kind \in {"issues", "pull_requests"}
  /\ listing \in Listings(SourceSamples(kind))
  /\ per_page \in PageSizes
  /\ errorAt \in 0..PagesOf(listing, per_page)
  /\ dry_run \in BOOLEAN
  /\ schema = NoProps
  /\ phase = "fetch"

Init ==
  /\ (InitItems \/ InitEngine \/ InitRepos \/ InitJobs)
  /\ pages = <<>>
  /\ cache = NoProps
  /\ calls = <<>>
  /\ summary = NewSummary
  /\ returned = <<>>
  /\ run = 1
  /\ idx = 0
  /\ fetched = 0
  /\ faults = 0
  /\ probe = NoProbe
  /\ InitBridge

Next ==
  \/ ItemsNext
  \/ ItemsReturn
  \/ EngineFetch
  \/ EngineNext
  \/ EngineReturn
  \/ RepoFetch
  \/ RepoNext
  \/ RepoReturn
  \/ JobsFetch
  \/ JobsNext
  \/ JobsReturn
  \/ RunAgain

Spec == Init /\ [][Next]_vars

(* ------------------ functions applied by themselves -------------------- *)
\* The second specification applies one function of the code to one input
\* drawn from the sets below; no synchronisation runs in it.

\* ---- str.lower, str.title and str.capitalize, letter by letter
LowerLetters == <<"a", "b", "c", "d", "e", "f", "g", "h", "i", "j", "k", "l", "m",
                  "n", "o", "p", "q", "r", "s", "t", "u", "v", "w", "x", "y", "z">>
UpperLetters == <<"A", "B", "C", "D", "E", "F", "G", "H", "I", "J", "K", "L", "M",
                  "N", "O", "P", "Q", "R", "S", "T", "U", "V", "W", "X", "Y", "Z">>

IsLetter(c) == c \in SeqToSet(LowerLetters) \cup SeqToSet(UpperLetters)

LowerChar(c) ==
  IF c \in SeqToSet(UpperLetters)
  THEN LowerLetters[CHOOSE k \in 1..26 : UpperLetters[k] = c]
  ELSE c

UpperChar(c) ==
  IF c \in SeqToSet(LowerLetters)
  THEN UpperLetters[CHOOSE k \in 1..26 : LowerLetters[k] = c]
  ELSE c

\* s.lower()
RECURSIVE str_lower(_)
str_lower(s) ==
  IF s = "" THEN "" ELSE LowerChar(SubSeq(s, 1, 1)) \o str_lower(SubSeq(s, 2, Len(s)))

\* s.title(): a letter that follows a letter is lowered, every other letter
\* is raised
str_title(s) ==
  LET RECURSIVE Cased(_, _)
      Cased(rest, after_letter) ==
        IF rest = "" THEN ""
        ELSE LET c == SubSeq(rest, 1, 1)
             IN (IF after_letter THEN LowerChar(c) ELSE UpperChar(c))
                \o Cased(SubSeq(rest, 2, Len(rest)), IsLetter(c))
  IN Cased(s, FALSE)

\* s.capitalize(): the first character raised, the rest lowered
str_capitalize(s) ==
  IF s = "" THEN "" ELSE UpperChar(SubSeq(s, 1, 1)) \o str_lower(SubSeq(s, 2, Len(s)))

\* ---- workflow_sync.map_run_status(conclusion, status)
map_run_status(conclusion, status) ==
  LET conclusion_normalised == str_lower(Or(conclusion, ""))
      status_normalised == str_lower(Or(status, ""))
  IN IF conclusion_normalised = "success" THEN "Success"
     ELSE IF conclusion_normalised \in {"failure", "timed_out", "startup_failure"}
          THEN "Failure"
     ELSE IF conclusion_normalised \in {"cancelled", "skipped"}
          THEN str_title(conclusion_normalised)
     ELSE IF status_normalised \in {"queued", "in_progress"} THEN "In Progress"
     ELSE IF Truthy(conclusion) THEN str_title(conclusion)
     ELSE IF Truthy(status) THEN str_title(status)
     ELSE "Unknown"

\* ---- entity_sync._run_status(run, target)
\* SYNC_TARGETS["runs"]
RunsTarget == [default_status_open |-> "Running", default_status_closed |-> "Completed"]

_run_status(workflow_run, target) ==
  LET conclusion == str_lower(Or(workflow_run.conclusion, ""))
  IN IF ~Truthy(conclusion) THEN target.default_status_open
     ELSE IF conclusion = "success" THEN target.default_status_closed
     ELSE IF conclusion \in {"failure", "timed_out"} THEN "Failed"
     ELSE str_capitalize(conclusion)

\* a workflow run as GitHub reports it: conclusion and status
Conclusions == {None, "success", "failure", "timed_out", "startup_failure",
                "cancelled", "skipped", "neutral", "SUCCESS"}
Statuses == {None, "queued", "in_progress", "completed", "waiting"}

RunProbes ==
  {[fn |-> f, conclusion |-> c, status |-> st, done |-> FALSE, out |-> ""] :
     f \in {"map_run_status", "_run_status"}, c \in Conclusions, st \in Statuses}

\* ---- workflow_sync: identity resolution
\* the answer of a resolution: the exception that left it ("" when none
\* did), whether a query was sent, and the page found (0: None)
Resolution(raised, queried, page_id) ==
  [raised |-> raised, queried |-> queried, page_id |-> page_id]

PropertyBinding(name, type) == [name |-> name, type |-> type]

\* build_filter_payload: the filter as <<filter type, value>>, or the
\* exception float() or the last line raises
build_filter_payload(property_type, property_name, identifier) ==
  CASE property_type = "rich_text" -> [raised |-> "", filter |-> <<"rich_text", identifier>>]
    [] property_type = "number" ->
         IF IsNumeric(identifier)
         THEN [raised |-> "", filter |-> <<"number", Float(identifier)>>]
         ELSE [raised |-> "ValueError", filter |-> <<>>]
    [] property_type = "title" -> [raised |-> "", filter |-> <<"title", identifier>>]
    [] property_type = "url" -> [raised |-> "", filter |-> <<"url", identifier>>]
    [] OTHER -> [raised |-> "SyncConfigurationError", filter |-> <<>>]

\* NotionClient._locate_page against the pages pgs; fail: the query is
\* answered with a status >= 400
_locate_page(pgs, identifier, property_binding, fail) ==
  LET filter_payload ==
        build_filter_payload(property_binding.type, property_binding.name, identifier)
  IN IF filter_payload.raised # "" THEN Resolution(filter_payload.raised, FALSE, 0)
     ELSE IF fail THEN Resolution("NotionSyncError", TRUE, 0)
     ELSE Resolution("", TRUE,
                     FirstMatch(pgs, property_binding.name, filter_payload.filter[1],
                                filter_payload.filter[2]))

\* EntitySyncEngine._resolve_page_id with an empty cache, against the pages
\* pgs and the schema sch
ResolveUncached(pgs, sch, unique_id, fail) ==
  LET filter_body == _build_unique_filter(sch, unique_id)
  IN IF unique_property \notin DOMAIN sch \/ filter_body = <<>>
     THEN Resolution("", FALSE, 0)
     ELSE IF fail THEN Resolution("NotionApiError", TRUE, 0)
     ELSE Resolution("", TRUE,
                     FirstMatch(pgs, unique_property, filter_body[1], filter_body[2]))

IdentifierTypes == {"rich_text", "number", "title", "url", "select"}
Identifiers == {"7", "I_1"}

\* the target: empty, or one page that carries identifier 7
TargetWith(type) ==
  {<<>>, <<(unique_property :> PV(type, IF type = "number" THEN Float("7") ELSE "7", <<>>))>>}

ResolveProbes ==
  {[fn |-> f, type |-> t, identifier |-> i, pgs |-> pg, fail |-> fl, done |-> FALSE,
    out |-> Resolution("", FALSE, 0)] :
     f \in {"_locate_page", "_resolve_page_id"}, t \in IdentifierTypes,
     i \in Identifiers, pg \in UNION {TargetWith(ty) : ty \in IdentifierTypes},
     fl \in BOOLEAN}

\* ---- listing the projects of a repository
\* str(n) of a natural number
RECURSIVE IntStr(_)
IntStr(n) ==
  LET digit == <<"0", "1", "2", "3", "4", "5", "6", "7", "8", "9">>[(n % 10) + 1]
  IN IF n < 10 THEN digit ELSE IntStr(n \div 10) \o digit

\* sub in s
Contains(s, sub) ==
  \E k \in 1..(Len(s) - Len(sub) + 1) : SubSeq(s, k, k + Len(sub) - 1) = sub

\* one response of the source API: its status, its body text when it is an
\* error, its records when it is not
Response(status, text, records) == [status |-> status, text |-> text, records |-> records]

Responses ==
  {Response(200, "", <<"P1">>), Response(200, "", <<"P2", "P3">>),
   Response(404, "Not Found", <<>>), Response(410, "Gone", <<>>),
   Response(403, "Forbidden", <<>>), Response(500, "Server Error", <<>>),
   Response(500, "upstream answered 404", <<>>)}

\* what the source serves page by page; every page but the last carries a
\* next link
ResponseLists == UNION {[1..n -> Responses] : n \in 1..MaxResponses}

\* the outcome of a fetch: the exception that left it ("" when none did) and
\* the list returned
Outcome(raised, message, records) ==
  [raised |-> raised, message |-> message, records |-> records]

\* entities.GitHubDataFetcher._paginate
RECURSIVE entities_paginate(_, _)
entities_paginate(responses, results) ==
  IF responses = <<>> THEN Outcome("", "", results)
  ELSE LET response == Head(responses)
       IN IF response.status >= 400
          THEN Outcome("GitHubApiError",
                       "GitHub API error (" \o IntStr(response.status) \o "): "
                         \o response.text,
                       <<>>)
          ELSE entities_paginate(Tail(responses), results \o response.records)

\* entities.GitHubDataFetcher.fetch_projects
entities_fetch_projects(responses) ==
  LET listed == entities_paginate(responses, <<>>)
  IN IF listed.raised = "GitHubApiError"
        /\ (Contains(listed.message, "410") \/ Contains(listed.message, "404"))
     THEN Outcome("", "", <<>>)
     ELSE listed

\* workflow_sync.GitHubDataSource._paginate, read to its end
RECURSIVE workflow_paginate(_, _)
workflow_paginate(responses, results) ==
  IF responses = <<>> THEN Outcome("", "", results)
  ELSE LET response == Head(responses)
       IN IF response.status >= 400
          THEN Outcome("GitHubSyncError",
                       "GitHub API request to projects failed with "
                         \o IntStr(response.status) \o ": " \o response.text,
                       <<>>)
          ELSE workflow_paginate(Tail(responses), results \o response.records)

\* workflow_sync.GitHubDataSource.fetch_projects
workflow_fetch_projects(responses) == workflow_paginate(responses, <<>>)

FetchProbes ==
  {[fn |-> f, responses |-> r, done |-> FALSE, out |-> Outcome("", "", <<>>)] :
     f \in {"entities.fetch_projects", "workflow_sync.fetch_projects"},
     r \in ResponseLists}

\* ---- texts and their truncation
\* s repeated n times
RECURSIVE Rep(_, _)
Rep(s, n) ==
  IF n = 0 THEN ""
  ELSE IF n % 2 = 0 THEN LET half == Rep(s, n \div 2) IN half \o half
       ELSE s \o Rep(s, n - 1)

\* source texts around the limits of 1900 and 2000 characters, one of them
\* a text that was truncated before
SourceTexts ==
  {Rep("x", n) : n \in {0, 5, 1899, 1900, 1901, 2001}}
  \cup {Rep("x", 1897) \o "...", Rep("x", 1999) \o "..."}

\* workflow_sync.build_issue_items: description of the issue's body
build_issue_items_description(body) ==
  LET cut == Prefix(Or(body, ""), 1900) IN IF cut = "" THEN None ELSE cut

\* workflow_sync.build_property_value for the title and rich_text types
build_property_value(property_type, value) ==
  PV(property_type, Prefix(Str(value), 2000), <<>>)

\* the text each writer sends for a source text: the engine's coercion of a
\* text field, the description of workflow_sync (cut when the item is built
\* and again when the property is), and the titles of workflow_sync,
\* entity_sync and jobs
WrittenText(writer, text) ==
  CASE writer = "entities._truncate_text" ->
         _coerce_property(PropertyValue_text(text), SchemaProp("rich_text", {})).text
    [] writer = "workflow_sync.description" ->
         build_property_value("rich_text", build_issue_items_description(text)).text
    [] writer = "workflow_sync.title" -> build_property_value("title", text).text
    [] OTHER -> _build_title_payload(text).text

TextWriters == {"entities._truncate_text", "workflow_sync.description",
                "workflow_sync.title", "entity_sync.title"}

\* the limit of each writer
FieldLimit(writer) ==
  IF writer \in {"entities._truncate_text", "workflow_sync.description"} THEN 1900
  ELSE 2000

TextProbes ==
  {[fn |-> "truncate", writer |-> w, text |-> t, done |-> FALSE, out |-> "",
    again |-> ""] : w \in TextWriters, t \in SourceTexts \ {""}}

\* the exit status of the three entity-sync command lines.  An invocation
\* carries the entity argument, what the environment provides, and how the
\* collection and the synchronisation went: "clean" (nothing failed),
\* "failures" (the summary counts failed items) or "fatal" (the collection
\* raised).  argparse ends the process with status 2 on an argument outside
\* its choices; an exception nobody catches, and SystemExit with a message,
\* end it with status 1.
Entities == {"tasks", "pull_requests", "issues", "projects", "runs"}

entity_sync_cli_main(inv) ==
  IF inv.entity \notin Entities THEN 2
  ELSE IF ~inv.notion_token THEN 1
  ELSE IF inv.entity # "runs" /\ ~inv.github_token THEN 1
  ELSE IF inv.entity # "runs" /\ ~inv.repository THEN 1
  ELSE IF inv.outcome = "fatal" THEN 1
  ELSE IF inv.outcome = "failures" THEN 2
  ELSE 0

sync_entities_main(inv) ==
  IF inv.entity \notin Entities THEN 2
  ELSE IF ~inv.notion_token \/ ~inv.github_token THEN 1
  ELSE IF inv.entity = "runs"
       THEN (IF inv.outcome = "clean" THEN 0 ELSE 1)
  ELSE IF ~inv.repository THEN 1
  ELSE IF inv.outcome = "fatal" THEN 1
  ELSE IF inv.outcome = "failures" THEN 1
  ELSE 0

entity_cli_main(inv) ==
  IF inv.entity \notin Entities THEN 2
  ELSE IF ~inv.notion_token \/ ~inv.github_token THEN 1
  ELSE IF inv.entity # "runs" /\ ~inv.repository THEN 1
  ELSE IF inv.outcome = "fatal" THEN 1
  ELSE 0

CommandLines == {"entity_sync_cli", "sync_entities", "entity_cli"}

Invocations ==
  [fn : {"main"}, cli : CommandLines,
   entity : {"issues", "runs", "widgets"},
   notion_token : BOOLEAN, github_token : BOOLEAN, repository : BOOLEAN,
   outcome : {"clean", "failures", "fatal"},
   done : {FALSE}, out : {0}]

\* ---- scripts/notion_sync/client.py: NotionSyncClient
\* How the Notion API answers one call: "ok"; "rejected", an APIResponseError
\* for a request that was not carried out; "lost", an APIResponseError for a
\* request that was carried out all the same (the gateway gave up waiting);
\* "crash", an exception that is no APIResponseError.
Outcomes == {"ok", "rejected", "lost", "crash"}

\* the answer to call number at
OutcomeAt(outcomes, at) == IF at <= Len(outcomes) THEN outcomes[at] ELSE "ok"

\* stop_after_attempt(5)
Attempts == 5

\* NotionSyncClient._call_with_retry from call number at on, first try: the
\* calls made, what left the function ("none": the result of func), and the
\* requests the API carried out
RECURSIVE Retrying(_, _, _, _)
Retrying(outcomes, at, attempt, applied) ==
  LET o == OutcomeAt(outcomes, at)
      done == IF o \in {"ok", "lost"} THEN applied + 1 ELSE applied
  IN CASE o = "ok" -> [calls |-> attempt, raised |-> "none", applied |-> done]
       [] o = "crash" -> [calls |-> attempt, raised |-> "Exception", applied |-> done]
       [] attempt >= Attempts ->
            [calls |-> attempt, raised |-> "APIResponseError", applied |-> done]
       [] OTHER -> Retrying(outcomes, at + 1, attempt + 1, done)

\* _call_with_retry that gives up at the first error
_call_with_retry_once(outcomes, at) ==
  LET o == OutcomeAt(outcomes, at)
  IN [calls |-> 1,
      raised |-> CASE o = "ok" -> "none" [] o = "crash" -> "Exception"
                   [] OTHER -> "APIResponseError",
      applied |-> IF o \in {"ok", "lost"} THEN 1 ELSE 0]

_call_with_retry(outcomes, at) == Retrying(outcomes, at, 1, 0)

\* NotionSyncClient._find_page_by_github_id against a database that holds
\* existing pages with the GitHub ID: the retried query and whether a page
\* was found
_find_page_by_github_id(existing, outcomes) ==
  LET q == _call_with_retry(outcomes, 1)
  IN [calls |-> q.calls, raised |-> q.raised,
      found |-> q.raised = "none" /\ existing > 0]

\* NotionSyncClient._create_page and _update_page: the retried call
_create_page(outcomes, at) == _call_with_retry(outcomes, at)

_update_page(outcomes, at) == _call_with_retry(outcomes, at)

\* NotionSyncClient.upsert of an operation that carries a GitHub ID and no
\* page id: what leaves it and the pages with the GitHub ID afterwards
upsert(existing, outcomes) ==
  LET f == _find_page_by_github_id(existing, outcomes)
      u == _update_page(outcomes, f.calls + 1)
      c == _create_page(outcomes, f.calls + 1)
  IN IF f.raised # "none"
     THEN [raised |-> f.raised, calls |-> f.calls, carrying |-> existing]
     ELSE IF f.found
     THEN [raised |-> u.raised, calls |-> f.calls + u.calls, carrying |-> existing]
     ELSE [raised |-> c.raised, calls |-> f.calls + c.calls,
           carrying |-> existing + c.applied]

OutcomeSeqs == [1..MaxOutcomes -> Outcomes]

RetryProbes == [fn : {"_call_with_retry"}, outcomes : OutcomeSeqs,
                done : {FALSE}, out : {None}]

UpsertProbes == [fn : {"upsert"}, existing : {0, 1}, outcomes : OutcomeSeqs,
                 done : {FALSE}, out : {None}]

\* field values as the record builders make them
CoerceValues ==
  {PropertyValue_status(v) : v \in {"Open", "Closed", "Merged", None}}
  \cup {PropertyValue_number(v) : v \in {None, "", "7", "abc"}}
  \cup {PropertyValue_text(v) : v \in {"I_1", None}}
  \cup {PropertyValue_url(v) : v \in {"https://github.test/1", None}}
  \cup {PropertyValue_date(v) : v \in {"2024-01-01T00:00:00Z", None}}
  \cup {PropertyValue_multi_select(vs) : vs \in {<<>>, <<"bug", "bug">>}}

\* schema properties: every type the coercion knows, one it does not, and the
\* select and status types with and without a declared option set
CoerceSchemas ==
  {SchemaProp(t, {}) : t \in {"title", "rich_text", "url", "number", "multi_select",
                              "status", "select", "date", "people"}}
  \cup {SchemaProp(t, {"Open", "Closed"}) : t \in {"status", "select"}}

CoerceProbes ==
  {[fn |-> "coerce", prop |-> v, sp |-> sp, done |-> FALSE, out |-> Omitted] :
     v \in CoerceValues, sp \in CoerceSchemas}

\* an issue as the source lists it after it was reopened, and one whose link
\* the source no longer reports
Reopened(issue) == [issue EXCEPT !.state = "open", !.closed_at = None]
WithoutUrl(issue) == [issue EXCEPT !.html_url = None]

\* one issue synchronised twice by the engine, as the source listed it first
\* and as it lists it later
ResyncProbes ==
  {[fn |-> "resync", first |-> i, second |-> j, sch |-> sc, done |-> FALSE,
    out |-> NoProps] :
     i \in {IssueN7}, j \in {IssueN7, Reopened(IssueN7), WithoutUrl(IssueN7)},
     sc \in SchemaSamples}

Probes == CoerceProbes \cup ResyncProbes \cup RunProbes \cup ResolveProbes
          \cup FetchProbes
          \cup TextProbes
          \cup Invocations
          \cup RetryProbes \cup UpsertProbes

\* every variable of a synchronisation at rest
Idle ==
  /\ impl = "none" /\ kind = "none" /\ listing = <<>> /\ per_page = PerPage
  /\ errorAt = 0 /\ dry_run = FALSE /\ schema = NoProps
  /\ pages = <<>> /\ cache = NoProps /\ calls = <<>> /\ summary = NewSummary
  /\ returned = <<>> /\ phase = "idle" /\ run = 1 /\ idx = 0 /\ fetched = 0
  /\ faults = 0

sync_vars == <<impl, kind, listing, per_page, errorAt, dry_run, schema, pages, cache,
               calls, summary, returned, phase, run, idx, fetched, faults, bridge>>

InitFn == Idle /\ InitBridge /\ probe \in Probes

\* EntitySyncEngine._coerce_property(name, prop) against the schema entry sp
Coerce ==
  /\ probe.fn = "coerce" /\ ~probe.done
  /\ probe' = [probe EXCEPT !.done = TRUE, !.out = _coerce_property(probe.prop, probe.sp)]
  /\ UNCHANGED sync_vars

\* EntitySyncEngine._sync_single of build_issue_records' record, twice: the
\* first sync creates the page, the second finds it and updates it
Resync ==
  /\ probe.fn = "resync" /\ ~probe.done
  /\ LET payload(issue) == _build_payload(probe.sch, build_issue_record(issue))
         created == CreatePage(<<>>, payload(probe.first))
         updated == UpdatePage(created, 1, payload(probe.second))
     IN probe' = [probe EXCEPT !.done = TRUE, !.out = updated[1]]
  /\ UNCHANGED sync_vars

\* workflow_sync.build_run_item: map_run_status of the run's conclusion
\* and status
MapRunStatus ==
  /\ probe.fn = "map_run_status" /\ ~probe.done
  /\ probe' = [probe EXCEPT !.done = TRUE,
                            !.out = map_run_status(probe.conclusion, probe.status)]
  /\ UNCHANGED sync_vars

\* entity_sync._build_run_properties: _run_status of the run against the
\* runs target
RunStatus ==
  /\ probe.fn = "_run_status" /\ ~probe.done
  /\ probe' = [probe EXCEPT !.done = TRUE,
                            !.out = _run_status([conclusion |-> probe.conclusion,
                                                 status |-> probe.status], RunsTarget)]
  /\ UNCHANGED sync_vars

\* workflow_sync.NotionClient.upsert_page up to the answer of _locate_page
LocatePage ==
  /\ probe.fn = "_locate_page" /\ ~probe.done
  /\ probe' = [probe EXCEPT
                 !.done = TRUE,
                 !.out = _locate_page(probe.pgs, probe.identifier,
                                      PropertyBinding(unique_property, probe.type),
                                      probe.fail)]
  /\ UNCHANGED sync_vars

\* EntitySyncEngine._sync_single up to the answer of _resolve_page_id
ResolvePageId ==
  /\ probe.fn = "_resolve_page_id" /\ ~probe.done
  /\ probe' = [probe EXCEPT
                 !.done = TRUE,
                 !.out = ResolveUncached(probe.pgs,
                                         (unique_property :> SchemaProp(probe.type, {})),
                                         probe.identifier, probe.fail)]
  /\ UNCHANGED sync_vars

\* fetch_projects of either fetcher over the responses the source serves
FetchProjects ==
  /\ probe.fn \in {"entities.fetch_projects", "workflow_sync.fetch_projects"}
  /\ ~probe.done
  /\ probe' = [probe EXCEPT
                 !.done = TRUE,
                 !.out = IF probe.fn = "entities.fetch_projects"
                         THEN entities_fetch_projects(probe.responses)
                         ELSE workflow_fetch_projects(probe.responses)]
  /\ UNCHANGED sync_vars

\* one text written by one writer, and what the same writer makes of the
\* text it wrote
Truncate ==
  /\ probe.fn = "truncate" /\ ~probe.done
  /\ LET once == WrittenText(probe.writer, probe.text)
     IN probe' = [probe EXCEPT !.done = TRUE, !.out = once,
                               !.again = WrittenText(probe.writer, once)]
  /\ UNCHANGED sync_vars

\* one command line run, from its arguments to its exit status
ExitStatus ==
  /\ probe.fn = "main" /\ ~probe.done
  /\ probe' = [probe EXCEPT
                 !.done = TRUE,
                 !.out = CASE probe.cli = "entity_sync_cli"
                                -> entity_sync_cli_main(probe)
                           [] probe.cli = "sync_entities"
                                -> sync_entities_main(probe)
                           [] OTHER -> entity_cli_main(probe)]
  /\ UNCHANGED sync_vars

\* one call of _call_with_retry
CallWithRetry ==
  /\ probe.fn = "_call_with_retry" /\ ~probe.done
  /\ probe' = [probe EXCEPT !.done = TRUE, !.out = _call_with_retry(probe.outcomes, 1)]
  /\ UNCHANGED sync_vars

\* one upsert
Upsert ==
  /\ probe.fn = "upsert" /\ ~probe.done
  /\ probe' = [probe EXCEPT !.done = TRUE, !.out = upsert(probe.existing, probe.outcomes)]
  /\ UNCHANGED sync_vars

NextFn ==
  \/ Coerce
  \/ Resync
  \/ MapRunStatus
  \/ RunStatus
  \/ LocatePage
  \/ ResolvePageId
  \/ FetchProjects
  \/ Truncate
  \/ ExitStatus
  \/ CallWithRetry
  \/ Upsert

FnSpec == InitFn /\ [][NextFn]_vars

(* ------------------------- a DataBridge at work ------------------------ *)
\* The third specification hands events to one DataBridge; no
\* synchronisation runs in it and no function is applied by itself.
NextBridge ==
  \/ process_github_issue
  \/ process_github_pull_request
  \/ process_github_discussion
  \/ process_notion_task
  \/ process_notion_status_change

InitEvents == Idle /\ probe = NoProbe /\ InitBridge

BridgeSpec == InitEvents /\ [][NextBridge]_vars

(* ------------------------- vocabulary of the claims -------------------- *)
\* the records the batch operation of the running implementation iterates
Batch ==
  CASE impl = "jobs" -> JobsBatch
    [] impl = "repos" -> listing
    [] OTHER -> Fetched(kind, listing)

N == Len(Batch)

\* the identifier under which the implementation looks record j up
Ident(j) ==
  IF impl = "items" THEN Str(Or(Batch[j].node_id, Batch[j].id)) ELSE Str(Batch[j].id)

DistinctIds == \A j, k \in 1..N : j # k => Ident(j) # Ident(k)

\* the calls of kind op that the target carried out in run r
Done(r, op) == {j \in 1..Len(calls) : calls[j].run = r /\ calls[j].op = op /\ calls[j].ok}

\* the calls of kind op sent in run r, answered or not
Sent(r, op) == {j \in 1..Len(calls) : calls[j].run = r /\ calls[j].op = op}

Writes == {"create", "update"}

(* -------------------------------- C1 ----------------------------------- *)
\* C1: for every batch of N records with pairwise distinct identifiers and a
\* target that holds no page for them, two successive runs without a target
\* error report created = N, updated = 0 and then created = 0, updated = N,
\* and the target holds exactly N pages afterwards.
C1_TwoRunsCreateThenUpdate ==
  (Len(returned) >= 2 /\ errorAt = 0 /\ ~dry_run /\ faults = 0 /\ DistinctIds) =>
     /\ Cardinality(Done(1, "create")) = N
     /\ Done(1, "update") = {}
     /\ Done(2, "create") = {}
     /\ Cardinality(Done(2, "update")) = N
     /\ Len(pages) = N
     /\ impl \in {"items", "jobs"} =>
          /\ returned[1].created = N /\ returned[1].updated = 0
          /\ returned[2].created = 0 /\ returned[2].updated = N

(* -------------------------------- C2 ----------------------------------- *)
\* the calls sent for record j of the batch in the current run
CallsFor(j) == {c \in 1..Len(calls) : calls[c].run = run /\ calls[c].item = j}

\* record j was created or updated in the current run
Written(j) == \E c \in CallsFor(j) : calls[c].op \in Writes /\ calls[c].ok

\* a call sent for record j in the current run was answered with an error
ItemFailed(j) == \E c \in CallsFor(j) : ~calls[c].ok

\* the items a summary accounts for (SyncResult has no processed counter)
Processed(sm) ==
  IF impl = "items" THEN sm.created + sm.updated + sm.skipped ELSE sm.processed

\* the failures a summary counts ("failed", or "errors" of the jobs dict)
FailedCount(sm) == sm.failed + sm.job_errors

\* C2: when one item of a batch of N raises while it is built, looked up or
\* written, no exception leaves the batch operation, the summary it returns
\* has processed = N and failed >= 1, and every other item is created or
\* updated.
C2_ItemFailureIsIsolated ==
  /\ phase # "raised"
  /\ (phase = "returned" /\ ~dry_run /\ errorAt = 0 /\ \E j \in 1..N : ItemFailed(j)) =>
       /\ Processed(summary) = N
       /\ FailedCount(summary) >= 1
       /\ \A j \in 1..N : ~ItemFailed(j) => Written(j)

(* -------------------------------- C3 ----------------------------------- *)
\* the current run returned the summary of a listing that was read in full
BatchReturned == phase = "returned" /\ ~(impl = "repos" /\ errorAt # 0)

NoWriteSent == \A c \in 1..Len(calls) : calls[c].op \notin Writes

\* identity queries of the current run that the target answered with an error
FailedQueries == {c \in Sent(run, "query") : ~calls[c].ok}

C4_MergedBeforeClosed ==
  \A c \in 1..Len(calls) :
    (/\ kind = "pull_requests"
     /\ calls[c].op \in Writes
     /\ Truthy(Batch[calls[c].item].merged_at)) =>
       \A n \in DOMAIN calls[c].props \cap {"Status", "State"} :
          calls[c].props[n].text = "Merged"

(* -------------------------------- C5 ----------------------------------- *)
\* the source answered a page request of the current run with an error
ListingFailed ==
  \/ phase = "aborted" /\ errorAt # 0
  \/ impl = "repos" /\ phase = "returned" /\ errorAt # 0

\* C5: when the source listing answers any page request with an error
\* status, no create and no update call was sent in that run.
C5_ListingErrorAppliesNothing ==
  ListingFailed => \A c \in 1..Len(calls) : calls[c].run = run => calls[c].op \notin Writes

(* -------------------------------- C6 ----------------------------------- *)
\* the call before call c is the query for the same identifier, sent for the
\* same record, that the target answered with no page
QueriedAndMissed(c) ==
  /\ c > 1
  /\ calls[c - 1].op = "query" /\ calls[c - 1].ok /\ calls[c - 1].page = 0
  /\ calls[c - 1].run = calls[c].run
  /\ calls[c - 1].item = calls[c].item
  /\ calls[c - 1].arg = calls[c].arg

\* no equals filter exists for the identifier: the schema lacks the unique
\* property, its type has no filter, or it is a number and the id is not
NoFilter(unique_id) ==
  \/ unique_property \notin DOMAIN schema
  \/ _build_unique_filter(schema, unique_id) = <<>>

EngineCreates == {c \in 1..Len(calls) : impl = "engine" /\ calls[c].op = "create"}

\* C6 (as claimed): EntitySyncEngine sends create_page for an identifier only
\* after the equals query it sent for that identifier, while syncing the same
\* item, returned no page.
C6_CreateOnlyAfterQueryMiss ==
  \A c \in EngineCreates : QueriedAndMissed(c)

\* C6 (amended): EntitySyncEngine sends create_page for an identifier only
\* after the equals query it sent for that identifier, while syncing the same
\* item, returned no page, or when no equals filter can be built for the
\* identifier (the schema lacks the unique property, the property's type is
\* none of rich_text, title, number, url, or it is number and the identifier
\* is not numeric); in that case it creates without any query.
C6_CreateAfterQueryMissOrNoFilter ==
  \A c \in EngineCreates :
    IF NoFilter(calls[c].arg)
    THEN ~(c > 1 /\ calls[c - 1].op = "query" /\ calls[c - 1].item = calls[c].item
                 /\ calls[c - 1].run = calls[c].run)
    ELSE QueriedAndMissed(c)

\* a create that followed the query miss, and in the second run an update
\* that followed the query hit of the same identifier
C6_Witness ==
  /\ impl = "engine" /\ run = 2
  /\ \E c \in EngineCreates : QueriedAndMissed(c) /\ calls[c].ok
  /\ \E c \in Sent(2, "update") : calls[c - 1].op = "query" /\ calls[c - 1].page # 0

(* -------------------------------- C7 ----------------------------------- *)
\* C7 (as claimed): with dry-run enabled no call of any kind is sent to the
\* target.
C7_DryRunSendsNothing ==
  dry_run => calls = <<>>

\* C7 (amended): with dry-run enabled processing an item sends no create and
\* no update; EntitySyncEngine and NotionClient.upsert send no call at all,
\* while NotionSyncClient._sync_single_repository still sends the identity
\* query of an identifier that is not in its page map, one per item.
C7_DryRunSendsNoWrite ==
  dry_run =>
    /\ \A c \in 1..Len(calls) : calls[c].op = "query" /\ impl = "repos"
    /\ \A c, d \in 1..Len(calls) :
         (calls[c].run = calls[d].run /\ calls[c].item = calls[d].item) => c = d

\* a dry run of sync_repositories over two repositories: two identity
\* queries were sent and nothing else
C7_Witness ==
  /\ dry_run /\ impl = "repos" /\ phase = "returned" /\ N = 2
  /\ Cardinality(Sent(run, "query")) = 2
  /\ pages = <<>>

(* -------------------------------- C8 ----------------------------------- *)
\* C8: syncing the single issue {id: "I_1", number: 42, title: "Bug: fix
\* regression", state: "open", labels: [task]} against a target without a
\* page for it sends exactly one create_page, whose properties hold the
\* title "Bug: fix regression", the identifier "I_1" and the status "Open",
\* and the summary reports created = 1.
C8_SingleIssueScenario ==
  (/\ kind = "issues" /\ listing = <<IssueI1>>
   /\ run = 1 /\ phase = "returned"
   /\ ~dry_run /\ errorAt = 0 /\ faults = 0
   /\ impl = "engine" => schema = FullSchema) =>
     /\ Cardinality(Sent(1, "create")) = 1
     /\ Sent(1, "update") = {}
     /\ \A c \in Sent(1, "create") :
          LET p == calls[c].props
          IN /\ \E n \in DOMAIN p : p[n].type = "title" /\ p[n].text = "Bug: fix regression"
             /\ "GitHub ID" \in DOMAIN p /\ p["GitHub ID"].text = "I_1"
             /\ \E n \in DOMAIN p \cap {"Status", "State"} : p[n].text = "Open"
     /\ impl \in {"items", "jobs"} => summary.created = 1

(* -------------------------------- C9 ----------------------------------- *)
\* the payloads EntitySyncEngine wrote against a schema whose Labels
\* property is a multi_select
LabelWrites ==
  {c \in 1..Len(calls) :
     /\ impl = "engine" /\ calls[c].op \in Writes
     /\ "Labels" \in DOMAIN schema /\ schema["Labels"].type = "multi_select"}

\* the non-empty label names of the record call c was sent for, in source order
TagsOf(c) == FilterTruthy(LabelNames(Batch[calls[c].item].labels))

C10_PayloadWithinSchema ==
  impl = "engine" =>
    /\ \A c \in 1..Len(calls) :
         calls[c].op \in Writes => DOMAIN calls[c].props \subseteq DOMAIN schema
    /\ \A j \in 1..(IF phase \in {"sync", "returned"} THEN idx ELSE 0) :
         DOMAIN _build_payload(schema, build_record(kind, Batch[j])) \subseteq DOMAIN schema
    /\ faults = 0 => summary.failed = 0 /\ phase # "raised"

\* a record with non-empty labels was created in a database whose schema
\* has no Labels property: the page holds no Labels
C10_Witness ==
  /\ impl = "engine" /\ "Labels" \notin DOMAIN schema
  /\ \E c \in Sent(run, "create") :
       /\ calls[c].ok
       /\ TagsOf(c) # <<>>
       /\ "Labels" \notin DOMAIN calls[c].props
       /\ DOMAIN calls[c].props # {}

(* ---------------- claims about the coercion of one field --------------- *)
\* _coerce_property has been applied to the field and the schema entry of probe
Coerced == probe.fn = "coerce" /\ probe.done

\* the schema entry is select- or status-typed and the field prefers that type
ChoiceTyped ==
  /\ probe.sp.type \in {"status", "select"}
  /\ probe.sp.type \in probe.prop.preferred_types

\* the value the field would be written with
Written_as(t) == PV(t, StrValue(probe.prop), <<>>)

\* C11 as stated: against a select or status property, a value outside the
\* declared option set is omitted, and a value inside it, or any value when
\* no option set is declared, is written.
C11_AnyValueWithoutOptionsIsWritten ==
  (Coerced /\ ChoiceTyped) =>
    IF probe.sp.options # {} /\ StrValue(probe.prop) \notin probe.sp.options
    THEN probe.out = Omitted
    ELSE probe.out = Written_as(probe.sp.type)

\* C11: against a select or status property, a value outside the declared
\* option set is omitted; an empty value is omitted whether or not options
\* are declared; a non-empty value that is a member, or any non-empty value
\* when no option set is declared, is written with the property's own type.
C11_NonMemberOrEmptyIsOmitted ==
  (Coerced /\ ChoiceTyped) =>
    IF \/ probe.sp.options # {} /\ StrValue(probe.prop) \notin probe.sp.options
       \/ ~ValueTruthy(probe.prop)
    THEN probe.out = Omitted
    ELSE probe.out = Written_as(probe.sp.type)

\* "Merged" was coerced against a status property restricted to Open and
\* Closed, and left out.
C11_Witness ==
  /\ Coerced
  /\ probe.sp = SchemaProp("status", {"Open", "Closed"})
  /\ probe.prop = PropertyValue_status("Merged")
  /\ probe.out = Omitted

(* ------------------------ claims about the cache ----------------------- *)
\* call c of the current run resolved its identifier to a page: a query that
\* was answered with a page, or a create that made one
Resolved(c) ==
  /\ calls[c].run = run /\ calls[c].ok
  /\ calls[c].op \in {"query", "create"}
  /\ calls[c].page # 0

\* every identifier resolved in this run is cached with its page, and every
\* later call for it is an update of that page
CacheAnswers ==
  impl \in {"engine", "repos"} =>
    \A c \in DOMAIN calls :
      Resolved(c) =>
        /\ calls[c].arg \in DOMAIN cache
        /\ cache[calls[c].arg] = calls[c].page
        /\ \A d \in DOMAIN calls :
             (d > c /\ calls[d].run = run /\ calls[d].arg = calls[c].arg) =>
               /\ calls[d].op = "update"
               /\ calls[d].page = calls[c].page

\* within one run no cache entry is removed or changed
CacheKept ==
  run' = run => \A k \in DOMAIN cache : k \in DOMAIN cache' /\ cache'[k] = cache[k]

\* C12: once a query hit or a create has resolved an identifier, it is cached
\* with that page; every later resolve of it in the same run sends no query
\* and addresses the same page; no cache entry is removed or changed.
C12_CacheOnlyGrows == []CacheAnswers /\ [][CacheKept]_vars

\* the engine made a page for an identifier and a later item with the same
\* identifier updated that page without a query
C12_Witness ==
  /\ impl = "engine"
  /\ \E c, d \in DOMAIN calls :
       /\ d = c + 1
       /\ calls[c].run = run /\ calls[d].run = run
       /\ calls[c].op = "create" /\ calls[c].ok
       /\ calls[d].op = "update" /\ calls[d].ok
       /\ calls[d].arg = calls[c].arg
       /\ calls[d].page = calls[c].page
       /\ calls[d].item > calls[c].item

(* ------------------- claims about clearing a property ------------------ *)
\* the engine has synchronised the issue of probe twice
Resynced == probe.fn = "resync" /\ probe.done

\* the schema of probe declares property n with type t
Declares(n, t) == n \in DOMAIN probe.sch /\ probe.sch[n].type = t

\* C13 as stated: a date or a link that the first sync wrote and that is
\* absent when the record is synchronised again is an explicit null on the
\* page after the second sync.
C13_AbsentDateOrUrlIsCleared ==
  Resynced =>
    /\ (/\ Declares("Closed", "date")
        /\ Truthy(probe.first.closed_at) /\ ~Truthy(probe.second.closed_at))
       => /\ "Closed" \in DOMAIN probe.out
          /\ probe.out["Closed"] = PV("date", None, <<>>)
    /\ (/\ Declares("GitHub URL", "url")
        /\ Truthy(probe.first.html_url) /\ ~Truthy(probe.second.html_url))
       => /\ "GitHub URL" \in DOMAIN probe.out
          /\ probe.out["GitHub URL"] = PV("url", None, <<>>)

(* ----------------------- claims about numbers -------------------------- *)
\* C14 as stated: against a number property a numeric input is written as
\* that number, and an empty or a non-numeric input is written as an
\* explicit null, never left out.
C14_NonNumericIsWrittenAsNull ==
  (/\ Coerced
   /\ probe.sp.type = "number"
   /\ probe.sp.type \in probe.prop.preferred_types) =>
    IF ~probe.prop.is_list /\ probe.prop.value \notin {None, ""}
       /\ IsNumeric(probe.prop.value)
    THEN probe.out = PV("number", Float(probe.prop.value), <<>>)
    ELSE probe.out = PV("number", None, <<>>)

(* ------------------- claims about the run status ----------------------- *)
\* a run status mapping has been applied to the run of probe
RunMapped == probe.fn \in {"map_run_status", "_run_status"} /\ probe.done

\* the status the claim names for a conclusion and a status
ClaimedRunStatus(conclusion, status) ==
  LET c == str_lower(Or(conclusion, ""))
      st == str_lower(Or(status, ""))
  IN CASE c = "success" -> "Success"
       [] c \in {"failure", "timed_out", "startup_failure"} -> "Failure"
       [] c \in {"cancelled", "skipped"} -> str_title(c)
       [] c \notin {"success", "failure", "timed_out", "startup_failure",
                    "cancelled", "skipped"}
          /\ ~Truthy(conclusion) /\ st \in {"queued", "in_progress"} -> "In Progress"
       [] OTHER -> IF Truthy(conclusion) THEN str_title(conclusion)
                   ELSE IF Truthy(status) THEN str_title(status)
                        ELSE "Unknown"

\* C15: the run status is Success for conclusion success, Failure for
\* failure, timed_out and startup_failure, the title-cased conclusion for
\* cancelled and skipped, In Progress for a queued or in_progress run without
\* a conclusion, and else the title-cased conclusion, the title-cased status
\* or Unknown, in that order.
C15_RunStatusMapping ==
  RunMapped => probe.out = ClaimedRunStatus(probe.conclusion, probe.status)

(* ----------------- claims about identity resolution -------------------- *)
\* the identifier of probe has been resolved
Located == probe.fn \in {"_locate_page", "_resolve_page_id"} /\ probe.done

\* C16: with a number-typed identifier property and an identifier that is
\* not a number, the resolution raises nothing, sends no query and answers
\* that there is no page.
C16_UnparsableNumberIsNoMatch ==
  (Located /\ probe.type = "number" /\ ~IsNumeric(probe.identifier)) =>
    probe.out = Resolution("", FALSE, 0)

(* ------------------- claims about listing projects --------------------- *)
\* the projects of probe have been listed
ProjectsFetched ==
  probe.fn \in {"entities.fetch_projects", "workflow_sync.fetch_projects"} /\ probe.done

\* the first response with a status >= 400, 0 when every response is fine
FirstError(responses) ==
  LET bad == {k \in DOMAIN responses : responses[k].status >= 400}
  IN IF bad = {} THEN 0 ELSE CHOOSE k \in bad : \A j \in bad : k <= j

\* C17: when the listing of projects meets a response with status 404 or 410
\* the fetch returns the empty list and raises nothing; when it meets any
\* other status >= 400 it raises.
C17_OnlyGoneProjectsAreEmpty ==
  (ProjectsFetched /\ FirstError(probe.responses) # 0) =>
    LET status == probe.responses[FirstError(probe.responses)].status
    IN IF status \in {404, 410}
       THEN probe.out.raised = "" /\ probe.out.records = <<>>
       ELSE probe.out.raised # ""

(* ----------------------- claims about pagination ----------------------- *)
\* every record of every response page of the listing, in order (the issues
\* listings leave out the records that are pull requests)
AllListed == IF impl = "repos" THEN listing ELSE Fetched(kind, listing)

\* C18: whatever the number of response pages, a run whose listing meets no
\* error iterates exactly the records of all pages, in order, and has
\* processed every one of them when it returns.
C18_EveryPageIsFetched ==
  (errorAt = 0 /\ phase \in {"sync", "returned"}) =>
    /\ Batch = AllListed
    /\ phase = "returned" => Processed(summary) = Len(AllListed)

(* ------------------- claims about building the engine ------------------ *)
\* C19: when the schema cannot be read or declares no title property, the
\* run ends while the engine is built: no query, create or update is sent,
\* no page changes, no item is processed and no failure is counted.
C19_NoTitleFailsBeforeAnyItem ==
  (impl = "engine" /\ (~Readable(schema) \/ ~HasTitle(schema))) =>
    /\ calls = <<>>
    /\ pages = <<>>
    /\ summary = NewSummary
    /\ returned = <<>>
    /\ idx = 0
    /\ phase \in {"fetch", "aborted"}

\* a run over a non-empty listing that the source served without an error
\* ended while the engine was built against a schema without a title
C19_Witness ==
  /\ impl = "engine"
  /\ schema = NoTitleSchema
  /\ listing # <<>> /\ errorAt = 0
  /\ ~dry_run
  /\ phase = "aborted"
  /\ calls = <<>>

(* --------------------- claims about preferred types -------------------- *)
\* C20: a field is written only against a schema property whose declared
\* type is one of its preferred types or rich_text, and then with that
\* type; against any other declared type it is omitted.
C20_OnlyPreferredTypesOrText ==
  Coerced =>
    /\ probe.out # Omitted =>
         /\ probe.sp.type \in probe.prop.preferred_types \cup {"rich_text"}
         /\ probe.out.type = probe.sp.type
    /\ probe.sp.type \notin probe.prop.preferred_types \cup {"rich_text"} =>
         probe.out = Omitted

\* a status field was coerced against a number property and left out
C20_Witness ==
  /\ Coerced
  /\ probe.prop = PropertyValue_status("Open")
  /\ probe.sp = SchemaProp("number", {})
  /\ probe.out = Omitted

(* ------------------------ claims about truncation ---------------------- *)
\* a text has been written
Truncated == probe.fn = "truncate" /\ probe.done

\* s ends with the truncation marker
EndsWithMarker(s) == Len(s) >= 3 /\ SubSeq(s, Len(s) - 2, Len(s)) = "..."

\* C21: a written text is at most the field limit long; a source text
\* within the limit is written as it is; one that exceeds it is written cut
\* and ends with the truncation marker; writing the written text again
\* changes nothing.
C21_TruncatedOnceWithMarker ==
  Truncated =>
    LET limit == FieldLimit(probe.writer)
    IN /\ Len(probe.out) <= limit
       /\ Len(probe.text) <= limit => probe.out = probe.text
       /\ Len(probe.text) > limit =>
            /\ EndsWithMarker(probe.out)
            /\ SubSeq(probe.out, 1, Len(probe.out) - 3)
                 = SubSeq(probe.text, 1, Len(probe.out) - 3)
       /\ probe.again = probe.out

(* ------------------------ claims about summaries ----------------------- *)
\* the items of the current run for which a call to the target failed
FailedItems == {j \in 1..idx : \E c \in DOMAIN calls :
                  calls[c].run = run /\ calls[c].item = j /\ ~calls[c].ok}

\* a finite set of numbers as an increasing sequence
RECURSIVE Ascending(_)
Ascending(set) ==
  IF set = {} THEN <<>>
  ELSE LET least == CHOOSE x \in set : \A y \in set : x <= y
       IN <<least>> \o Ascending(set \ {least})

\* the name an error record carries for item j: the repository's full name
\* or name; the engine passes {"id": ...}, which has neither
ErrorName(j) ==
  IF impl = "repos" THEN Str(Or(listing[j].full_name, listing[j].name)) ELSE "None"

\* the counters of a summary agree with each other
Balanced(sm) ==
  /\ sm.processed = sm.succeeded + sm.failed
  /\ Len(sm.errors) = sm.failed

\* C22: in every summary of sync_repositories and of EntitySyncEngine.sync,
\* processed = succeeded + failed and there are as many error records as
\* failures; while the batch is processed each item so far is counted once,
\* so that processed = N at the return of a run whose listing succeeded; the
\* error records are those of the failed items, in the order of the items.
C22_SummaryAccountsForEveryItem ==
  impl \in {"repos", "engine"} =>
    /\ Balanced(summary)
    /\ \A k \in DOMAIN returned : Balanced(returned[k])
    /\ (errorAt = 0 /\ phase \in {"sync", "returned"}) =>
         /\ summary.processed = idx
         /\ phase = "returned" => summary.processed = N
         /\ LET failed == Ascending(FailedItems)
            IN /\ Len(summary.errors) = Len(failed)
               /\ \A k \in DOMAIN failed :
                    summary.errors[k].repository = ErrorName(failed[k])

\* sync_repositories returned a summary with two failures, of two different
\* repositories, after it had processed both
C22_Witness ==
  /\ impl = "repos" /\ phase = "returned" /\ errorAt = 0
  /\ summary.processed = 2 /\ summary.failed = 2
  /\ Len(summary.errors) = 2
  /\ summary.errors[1].repository # summary.errors[2].repository

(* ------------------ claims about a failed listing ---------------------- *)
\* the summary of a run whose listing failed
ListingFailureSummary(sm) ==
  /\ sm.processed = 1 /\ sm.failed = 1 /\ sm.succeeded = 0
  /\ Len(sm.errors) = 1
  /\ sm.errors[1].repository = "<github>"

Exited == probe.fn = "main" /\ probe.done

\* the environment lacks nothing the run needs
Configured == probe.notion_token /\ probe.github_token /\ probe.repository

\* C24: an entity-sync command line run exits with 0 when the run completes,
\* with 1 on a configuration error or a fatal collection error, and with 2
\* only when the entity argument is unknown.
C24_ExitCodes ==
  Exited =>
    /\ probe.out = 2 => probe.entity \notin Entities
    /\ (probe.entity \in Entities /\ Configured /\ probe.outcome # "fatal")
         => probe.out = 0
    /\ (probe.entity \in Entities /\ (~probe.notion_token \/ probe.outcome = "fatal"))
         => probe.out = 1

(* -------------------------------- C25 ---------------------------------- *)
\* record j of the batch carries neither a node_id nor an id
Unidentified(j) == ~Truthy(Batch[j].node_id) /\ ~Truthy(Batch[j].id)

\* _sync_items has gone through record j of the batch
Visited(j) == impl = "items" /\ j <= Len(Fetched(kind, SubSeq(listing, 1, idx)))

\* C25: _sync_items records an item that carries neither a node_id nor an
\* id as skipped and issues no query, create or update call for it.
C25_UnidentifiedIsSkipped ==
  \A j \in 1..N :
    (Visited(j) /\ Unidentified(j)) =>
       /\ CallsFor(j) = {}
       /\ summary.skipped >= Cardinality({k \in 1..j : Unidentified(k)})

(* -------------------------------- C26 ---------------------------------- *)
\* the event being handled in the step, and the kinds GitHub sends
Handling == handled'[Len(handled')]
GitHubKinds == {"issue", "pull_request", "discussion"}
OnlyGitHub(h) == \A i \in 1..Len(h) : h[i].type \in GitHubKinds

\* the GitHub ids of the events of the kinds in ks handled so far
SeenIds(ks) == {handled[i].id : i \in {j \in 1..Len(handled) : handled[j].type \in ks}}

\* the page ids the link map gives for a GitHub id
PagesLinked(links, g) ==
  {links[i].link.notion_page_id : i \in {j \in 1..Len(links) : links[j].link.github_id = g}}

BucketKind(b) ==
  CASE b = "task_backlog" -> "issue"
    [] b = "pr_backlog" -> "pull_request"
    [] OTHER -> "discussion"

Report == build_report(_links, _log, _errors)

Listed(g) == {i \in 1..Len(Report.links) : Report.links[i].github_id = g}

OnePagePerGitHubId ==
  OnlyGitHub(handled) =>
    /\ \A g \in SeenIds(GitHubKinds) :
         /\ Cardinality(PagesLinked(_links, g)) = 1
         /\ Cardinality(Listed(g)) = 1
    /\ \A b \in Buckets :
         Cardinality(DOMAIN _notion_state[b]) = Cardinality(SeenIds({BucketKind(b)}))

PageReused ==
  (OnlyGitHub(handled') /\ Handling.id \in SeenIds(GitHubKinds)) =>
     PagesLinked(_links', Handling.id) = PagesLinked(_links, Handling.id)

\* C26: after any sequence of GitHub issue, pull-request and discussion
\* events each GitHub id is linked to exactly one Notion page id: an event
\* for an id seen before reuses the page id assigned the first time, adds no
\* second page entry to the bucket, and the report lists the id exactly once.
C26_OnePagePerGitHubId == []OnePagePerGitHubId /\ [][PageReused]_vars

\* an issue handled twice and then a pull request with the same id
C26_Witness ==
  /\ Len(handled) = 3 /\ OnlyGitHub(handled)
  /\ handled[1].type = "issue" /\ handled[2].type = "issue"
  /\ handled[3].type = "pull_request"
  /\ handled[1].id = handled[2].id /\ handled[2].id = handled[3].id
  /\ Len(Report.links) = 1

(* -------------------------------- C29 ---------------------------------- *)
\* what a link record says, apart from the object that holds it
LinkFields(link) == <<link.notion_page_id, link.entity_type, link.status>>

\* the step handles a pull-request event whose id is the id of an issue
\* handled earlier
PullRequestAfterIssue ==
  /\ Len(handled') = Len(handled) + 1
  /\ Handling.type = "pull_request"
  /\ Handling.id \in SeenIds({"issue"})

\* C29: processing a pull-request event whose id equals the id of an issue
\* processed earlier leaves the issue's link record (page id, entity type,
\* status) and its task-backlog page unchanged, and gives the pull request a
\* page id of its own.
C29_PullRequestKeepsIssueLink ==
  [][(OnlyGitHub(handled') /\ PullRequestAfterIssue) =>
       /\ Find(_links', Handling.id) # 0
       /\ LinkFields(Get(_links', Handling.id)) = LinkFields(Get(_links, Handling.id))
       /\ _notion_state'["task_backlog"] = _notion_state["task_backlog"]
       /\ DOMAIN _notion_state'["pr_backlog"] \cap DOMAIN _notion_state'["task_backlog"] = {}
    ]_vars

(* -------------------------------- C30 ---------------------------------- *)
\* the step handles a status change
StatusChange ==
  /\ Len(handled') = Len(handled) + 1
  /\ Handling.type = "status_change"

ReportAfter == build_report(_links', _log', _errors')

\* a link record with its status blanked
Unstated(entry) == [entry EXCEPT !.link.status = "", !.link.obj = 0]

UnlinkedChange ==
  /\ _errors' = Append(_errors, _errors'[Len(_errors')])
  /\ UNCHANGED <<_links, _notion_state, _log, _latencies>>
  /\ ReportAfter.entities_synced = Report.entities_synced
  /\ ReportAfter.error_count = Report.error_count + 1

LinkedChange ==
  LET link == _links[LinkOfPage(_links, Handling.page_id)].link
      changed == {i \in 1..Len(_links) : _links'[i] # _links[i]}
  IN /\ Len(_links') = Len(_links)
     /\ \A i \in 1..Len(_links) : Unstated(_links'[i]) = Unstated(_links[i])
     /\ \A i \in changed : _links[i].link.github_id = link.github_id
     /\ \A i \in 1..Len(_links) :
          _links[i].link.github_id = link.github_id =>
             _links'[i].link.status = Handling.status
     /\ UNCHANGED <<_notion_state, _errors>>
     /\ Len(_log') = Len(_log) + 1 /\ SubSeq(_log', 1, Len(_log)) = _log
     /\ _log'[Len(_log')].identifier = link.github_id

\* C30: process_notion_status_change for a page id that no link refers to
\* appends exactly one error and leaves the link map, the Notion state, the
\* sync log and the latency list unchanged, so the report's entities_synced
\* is unchanged and its error_count grows by one; for a linked page it
\* changes only that link's status and appends one log entry.
C30_StatusChange ==
  [][StatusChange =>
       IF LinkOfPage(_links, Handling.page_id) = 0 THEN UnlinkedChange ELSE LinkedChange
    ]_vars

\* a status change for a page nobody linked, after one for a page an issue
\* is linked to
C30_Witness ==
  /\ Len(handled) = 3
  /\ handled[1].type = "issue" /\ handled[1].id = "1"
  /\ handled[2].type = "status_change" /\ handled[2].page_id = "notion-1"
  /\ handled[3].type = "status_change" /\ handled[3].page_id = "page-9"
  /\ Len(_errors) = 1 /\ Len(_log) = 2
  /\ Get(_links, "1").status = "Done"

(* -------------------------------- C27 ---------------------------------- *)
Retried == probe.fn = "_call_with_retry" /\ probe.done

ApiErrors == {"rejected", "lost"}

\* the first of the calls that is not answered with an APIResponseError
\* (0: every one of the first n is)
FirstOther(outcomes, n) ==
  LET others == {i \in 1..n : outcomes[i] \notin ApiErrors}
  IN IF others = {} THEN 0 ELSE CHOOSE i \in others : \A j \in others : i <= j

\* C27: _call_with_retry calls the wrapped function at most 5 times, retries
\* only after an APIResponseError, returns the result of the first call that
\* succeeds, lets any other exception propagate without another call, and
\* raises the last APIResponseError after the fifth failure.
C27_RetryAtMostFiveTimes ==
  Retried =>
    LET k == FirstOther(probe.outcomes, 5)
    IN /\ probe.out.calls <= 5
       /\ k = 0 => probe.out.calls = 5 /\ probe.out.raised = "APIResponseError"
       /\ k # 0 =>
            /\ probe.out.calls = k
            /\ probe.out.raised = IF probe.outcomes[k] = "ok" THEN "none" ELSE "Exception"

\* five failures in a row
C27_Witness ==
  /\ Retried /\ probe.out.calls = 5 /\ probe.out.raised = "APIResponseError"
  /\ probe.outcomes[6] = "ok"

(* -------------------------------- C28 ---------------------------------- *)
\* C28: for any outcome sequence of the retried API calls, one upsert leaves
\* at most one page carrying the operation's GitHub ID in the database.
C28_AtMostOnePagePerGitHubId ==
  (probe.fn = "upsert" /\ probe.done) => probe.out.carrying <= 1

====
